---------------------------- MODULE Spec2Model ----------------------------
(***************************************************************************)
(* Streaming anomaly detectors of src/src/anomaly_detector.py:             *)
(* AdaptiveRollingAverageDetector, RollingAverageDetector, ZScoreDetector. *)
(*                                                                         *)
(* Numbers.  Samples are integers.  Every other float of the program       *)
(* (mean, std, z_score, the thresholds, adaptation_rate) is a fixed-point  *)
(* number with Scale units per 1.0, rounded toward zero; sum and sum_sq    *)
(* hold integers and are exact.  The return value of a call is a string:   *)
(* "True", "False", "None" (fit), or the name of the exception raised.     *)
(*                                                                         *)
(* Pipeline.  StreamProcessor.process_stream of                            *)
(* src/src/stream_processor.py with the Visualizer of src/src/visualizer.py*)
(* is modelled step by step (loop test, pull, detect, update, tick, pacing *)
(* sleep) on an event loop that resumes a task only when the running one   *)
(* awaits.  legacy selects the top-level stream_processor.py, visualizer.py*)
(* and main.py, whose render task runs beside process_stream.  Spec drives *)
(* the detectors directly; Pipeline drives them through process_stream;    *)
(* FairPipeline adds the fairness of the event loop; RunPipeline drives     *)
(* process_stream through StreamProcessor.run under a user who may press   *)
(* Ctrl-C.                                                                 *)
(*                                                                         *)
(* Other callers.  SpecAnyConfig builds the detectors from arguments no    *)
(* constructor refuses; SpecFloat feeds them inf, -inf and nan, which are  *)
(* kept as three numbers outside the range of the finite values and        *)
(* combined by the IEEE rules; FairAdaptive is an adaptive detector whose  *)
(* caller keeps calling.  SpecPair gives a RollingAverageDetector and a    *)
(* ZScoreDetector the same configuration and the same calls.  SpecRounded  *)
(* runs the adaptive detector on binary floats with a short significand,   *)
(* each operation rounded to nearest, where the running sums lose the low  *)
(* bits of large squares as Python's floats do.  LegacyPipeline is the     *)
(* top-level pipeline with Visualizer.update taken statement by statement. *)
(***************************************************************************)
EXTENDS Integers, Sequences, FiniteSets, TLC

\* ------------------------------------------------------------- bounds
\* Window sizes 0..MaxWindow are explored with samples from Values.
MaxWindow == 5
\* detect calls per behaviour on a detector that was never seeded.
MaxCalls == 6
\* Longest history handed to fit.
MaxHist == 3
\* One large window, explored with samples from LongValues.
LongWindow == 11
\* detect calls per behaviour on the large window.
LongCalls == 12
\* Budgets 0..MaxPoints are handed to process_stream as num_points.
MaxPoints == 4
\* Iterations per behaviour of the pipeline, over all process_stream calls.
MaxTime == 4
\* process_stream calls per behaviour on one StreamProcessor.
MaxRuns == 2
\* max_points and shift_size of the Visualizer, scaled down from 1000 and 700.
ViewPoints == 3
ViewShift == 2

\* Fixed-point units per 1.0.
Scale == 100

Values == {1, 10, 100}
LongValues == {1, 100}
HistValues == {1, 100}

\* The samples the producer yields.
StreamValues == {1, 100}

\* num_points: <<>> is None, <<n>> the budget n.
Budgets == {<<>>} \cup {<<n>> : n \in 0..MaxPoints}

Kinds == {"adaptive", "rolling", "zscore"}

\* What a detect call returns when it returns.
Verdicts == {"True", "False"}

\* The window sizes of the detectors the pipeline is built with.
PipelineWindows == {0, 1, 3}

\* initial_threshold: 1.0, 3.0 and the default 3.2.
InitialThresholds == {Scale, 3 * Scale, (32 * Scale) \div 10}
\* threshold_std / threshold: 1.0, 3.0 and the default 3.5.
Multipliers == {Scale, 3 * Scale, (35 * Scale) \div 10}
\* adaptation_rate: the default 0.05, and 0.1.
AdaptationRates == {(5 * Scale) \div 100, (10 * Scale) \div 100}

\* ------------------------------------------------------------ helpers
Abs(x) == IF x < 0 THEN 0 - x ELSE x

Max(a, b) == IF b > a THEN b ELSE a

Min(a, b) == IF b < a THEN b ELSE a

\* Division rounding toward zero.
Div(a, b) == IF a < 0 THEN 0 - ((0 - a) \div b) ELSE a \div b

RECURSIVE SqrtSearch(_, _, _)
SqrtSearch(n, lo, hi) ==
    IF lo >= hi THEN lo
    ELSE LET mid == (lo + hi + 1) \div 2
         IN  IF mid * mid <= n THEN SqrtSearch(n, mid, hi)
             ELSE SqrtSearch(n, lo, mid - 1)

\* floor(sqrt(n)), n >= 0.
Sqrt(n) == SqrtSearch(n, 0, Min(n, 46340))

RECURSIVE Sum(_)
Sum(s) == IF s = <<>> THEN 0 ELSE Head(s) + Sum(Tail(s))

RECURSIVE SumSq(_)
SumSq(s) == IF s = <<>> THEN 0 ELSE Head(s) * Head(s) + SumSq(Tail(s))

\* Sequences over S of length at most n.
SeqsUpTo(S, n) == UNION {[1..k -> S] : k \in 0..n}

\* data[-window_size:] for window_size >= 0 (data[-0:] is all of data).
LastSlice(data, window_size) ==
    IF window_size = 0 \/ window_size >= Len(data) THEN data
    ELSE SubSeq(data, Len(data) - window_size + 1, Len(data))

\* window.pop() in place of window.pop(0): the newest value is evicted.
PopLastAppend(window, value) == Append(SubSeq(window, 1, Len(window) - 1), value)

\* window.pop(0); window.append(value) on a non-empty window.
PopFirstAppend(window, value) == Append(Tail(window), value)

\* statistics.mean over a non-empty list.
StatMean(w) == Div(Scale * Sum(w), Len(w))

\* statistics.stdev (sample standard deviation) over a list of two or more.
StatStdev(w) ==
    LET n == Len(w)
    IN  Sqrt(Div(Scale * Scale * (n * SumSq(w) - Sum(w) * Sum(w)), n * (n - 1)))

VARIABLES
    kind,       \* which detector the pipeline drives
    adaptive,   \* the AdaptiveRollingAverageDetector object
    rolling,    \* the RollingAverageDetector object
    zscore,     \* the ZScoreDetector object
    op,         \* the last call: "init", "fit" or "detect"
    ret,        \* its result
    z_score,    \* the z_score local of the last call (0 when it computed none)
    inputs,     \* the arguments of the detect calls made on a never-seeded detector
    fitted,     \* whether fit was ever called
    fit_data,   \* the data argument of fit, until the second detect call after it
    processor,  \* the StreamProcessor object
    frame,      \* the activation of process_stream: position and locals
    visualizer, \* the Visualizer object
    calls,      \* what the collaborators were called with, in order
    tasks,      \* the event loop: the task that runs, the render task
    legacy      \* whether the pipeline is the one of the top-level main.py

detector_vars ==
    <<kind, adaptive, rolling, zscore, op, ret, z_score, inputs, fitted, fit_data>>

pipeline_vars == <<processor, frame, visualizer, calls, tasks, legacy>>

vars == <<detector_vars, pipeline_vars>>

\* The minimum threshold literal of AdaptiveRollingAverageDetector.detect.
MinimumThreshold == 3 * Scale

\* The std floor literal of AdaptiveRollingAverageDetector._update_stats.
StdFloor == Scale \div 10

\* -------------------------------------------------------- constructors
NewAdaptive(window_size, initial_threshold, adaptation_rate) ==
    [window_size |-> window_size, threshold |-> initial_threshold,
     adaptation_rate |-> adaptation_rate, window |-> <<>>,
     mean |-> 0, std |-> 0, sum |-> 0, sum_sq |-> 0, count |-> 0]

NewRolling(window_size, threshold_std) ==
    [window_size |-> window_size, threshold_std |-> threshold_std,
     window |-> <<>>, mean |-> 0, std |-> 0]

NewZScore(window_size, threshold) ==
    [window_size |-> window_size, threshold |-> threshold, window |-> <<>>]

\* StreamProcessor.__init__
NewProcessor == [time |-> 0]

\* Visualizer.__init__: the buffers, the closed flag and the view origin.
NewVisualizer ==
    [values |-> <<>>, anomalies |-> <<>>, times |-> <<>>,
     is_closed |-> FALSE, x_start |-> 0]

\* process_stream not called: no position, no budget, no locals.
NoFrame ==
    [pc |-> "idle", num_points |-> <<>>, value |-> 0, is_anomaly |-> FALSE,
     run |-> "none"]

\* No call made on the producer, the detector, the sink or asyncio.sleep.
NoCalls ==
    [next |-> <<>>, detect |-> <<>>, verdicts |-> <<>>, update |-> <<>>,
     raised |-> 0, sleep |-> 0, info |-> 0, runs |-> 0,
     run |-> 0, interrupted |-> 0, close |-> 0]

\* No task on the event loop.
NoTasks == [running |-> "none", render |-> "none", seen |-> <<0, 0, 0>>]

\* The pipeline objects right after construction, process_stream not called.
PipelineIdle ==
    /\ processor = NewProcessor
    /\ frame = NoFrame
    /\ visualizer = NewVisualizer
    /\ calls = NoCalls
    /\ tasks = NoTasks
    /\ legacy = FALSE

WindowSizes(k) ==
    IF k = "adaptive" THEN (0..MaxWindow) \cup {LongWindow} ELSE 0..MaxWindow

Init ==
    \E k \in Kinds :
      \E w \in WindowSizes(k) :
        \E t \in (IF k = "adaptive" THEN InitialThresholds ELSE Multipliers) :
          \E r \in (IF k = "adaptive" THEN AdaptationRates
                    ELSE {(5 * Scale) \div 100}) :
            /\ kind = k
            /\ adaptive = NewAdaptive(w, t, r)
            /\ rolling = NewRolling(w, t)
            /\ zscore = NewZScore(w, t)
            /\ op = "init"
            /\ ret = "None"
            /\ z_score = 0
            /\ inputs = <<>>
            /\ fitted = FALSE
            /\ fit_data = <<>>
            /\ PipelineIdle

\* The samples and the number of calls explored for a window size.
SamplesFor(window_size) == IF window_size >= LongWindow THEN LongValues ELSE Values

CallsFor(window_size) == IF window_size >= LongWindow THEN LongCalls ELSE MaxCalls

Record(value) == IF fitted THEN inputs ELSE Append(inputs, value)

\* -------------------------------------- AdaptiveRollingAverageDetector
\* _update_stats over the window without the value just appended.
AdaptiveUpdateStatsExcludingLast(d) ==
    LET n == Len(d.window) - 1
        last == d.window[Len(d.window)]
    IN  IF n > 0
        THEN LET m == Div(Scale * (d.sum - last), n)
                 v == Div(Scale * Scale * (d.sum_sq - last * last), n) - m * m
             IN  [d EXCEPT !.mean = m,
                           !.std = IF v < 0 THEN StdFloor ELSE Max(StdFloor, Sqrt(v))]
        ELSE [d EXCEPT !.mean = 0, !.std = StdFloor]

\* _update_stats: mean and std from the running sums; np.sqrt of a negative
\* number is nan, and max(0.1, nan) is 0.1.
AdaptiveUpdateStats(d) ==
    LET n == Len(d.window)
    IN  IF n > 0
        THEN LET m == Div(Scale * d.sum, n)
                 v == Div(Scale * Scale * d.sum_sq, n) - m * m
             IN  [d EXCEPT !.mean = m,
                           !.std = IF v < 0 THEN StdFloor ELSE Max(StdFloor, Sqrt(v))]
        ELSE [d EXCEPT !.mean = 0, !.std = StdFloor]

\* z_score = abs(value - self.mean) / self.std if self.std > 0 else 0
AdaptiveZScore(d, value) ==
    IF d.std > 0 THEN Div(Abs(Scale * value - d.mean) * Scale, d.std) ELSE 0

\* The smoothing applied whatever the verdict.
AdaptThresholdAlways(d, z, is_anomaly) ==
    Max(MinimumThreshold,
        Div((Scale - d.adaptation_rate) * d.threshold + d.adaptation_rate * z, Scale))

\* The threshold never adapted.
AdaptThresholdFrozen(d, z, is_anomaly) == d.threshold

\* The smoothing with its two weights exchanged.
AdaptThresholdSwappedWeights(d, z, is_anomaly) ==
    IF ~is_anomaly
    THEN Max(MinimumThreshold,
             Div(d.adaptation_rate * d.threshold + (Scale - d.adaptation_rate) * z, Scale))
    ELSE d.threshold

\* The threshold after a call that scored z: adapted only when not anomalous.
AdaptThreshold(d, z, is_anomaly) ==
    IF ~is_anomaly
    THEN Max(MinimumThreshold,
             Div((Scale - d.adaptation_rate) * d.threshold + d.adaptation_rate * z, Scale))
    ELSE d.threshold

\* sum_sq fed the value in place of its square.
AdaptiveAccumulateNoSquare(d, value) ==
    [d EXCEPT !.count = d.count + 1,
              !.sum = d.sum + value,
              !.sum_sq = d.sum_sq + value]

\* count, sum and sum_sq take the value in before the window is touched.
AdaptiveAccumulate(d, value) ==
    [d EXCEPT !.count = d.count + 1,
              !.sum = d.sum + value,
              !.sum_sq = d.sum_sq + value * value]

\* The eviction guarded by > in place of >=.
AdaptivePushOffByOne(d, value) ==
    IF Len(d.window) > d.window_size
    THEN [d EXCEPT !.window = Append(Tail(d.window), value),
                   !.sum = d.sum - Head(d.window),
                   !.sum_sq = d.sum_sq - Head(d.window) * Head(d.window)]
    ELSE [d EXCEPT !.window = Append(d.window, value)]

\* The eviction of the oldest value and the append, on a non-empty or
\* not-yet-full window.
AdaptivePush(d, value) ==
    IF Len(d.window) >= d.window_size
    THEN [d EXCEPT !.window = Append(Tail(d.window), value),
                   !.sum = d.sum - Head(d.window),
                   !.sum_sq = d.sum_sq - Head(d.window) * Head(d.window)]
    ELSE [d EXCEPT !.window = Append(d.window, value)]

AdaptiveDetect(value) ==
    /\ kind = "adaptive"
    /\ value \in SamplesFor(adaptive.window_size)
    /\ adaptive.count < CallsFor(adaptive.window_size)
    /\ op' = "detect"
    /\ inputs' = Record(value)
    /\ LET d1 == AdaptiveAccumulate(adaptive, value)
       IN  IF Len(d1.window) >= d1.window_size /\ d1.window = <<>>
           THEN \* window.pop(0) on an empty list
                /\ adaptive' = d1
                /\ ret' = "IndexError"
                /\ z_score' = 0
           ELSE LET d2 == AdaptiveUpdateStats(AdaptivePush(d1, value))
                    z == AdaptiveZScore(d2, value)
                    is_anomaly == z > d2.threshold
                IN  /\ adaptive' = [d2 EXCEPT !.threshold = AdaptThreshold(d2, z, is_anomaly)]
                    /\ ret' = IF is_anomaly THEN "True" ELSE "False"
                    /\ z_score' = z
    /\ UNCHANGED <<kind, rolling, zscore, fitted, fit_data>>

\* ---------------------------------------------- RollingAverageDetector
\* _update_stats that recomputes the mean and leaves std as it was.
RollingUpdateStatsStaleStd(d) == [d EXCEPT !.mean = StatMean(d.window)]

\* _update_stats on a non-empty window.
RollingUpdateStats(d) ==
    [d EXCEPT !.mean = StatMean(d.window),
              !.std = IF Len(d.window) > 1 THEN StatStdev(d.window) ELSE 0]

\* The comparison with >= in place of >.
RollingVerdictGe(d, value) ==
    Abs(Scale * value - d.mean) * Scale >= d.threshold_std * d.std

\* abs(value - self.mean) > self.threshold_std * self.std
RollingVerdict(d, value) ==
    Abs(Scale * value - d.mean) * Scale > d.threshold_std * d.std

RollingFit(data) ==
    /\ kind = "rolling"
    /\ op' = "fit"
    /\ fitted' = TRUE
    /\ inputs' = <<>>
    /\ fit_data' = data
    /\ LET d1 == [rolling EXCEPT !.window = LastSlice(data, rolling.window_size)]
       IN  IF d1.window = <<>>
           THEN \* statistics.mean of an empty list
                /\ rolling' = d1
                /\ ret' = "StatisticsError"
           ELSE /\ rolling' = RollingUpdateStats(d1)
                /\ ret' = "None"
    /\ z_score' = 0
    /\ UNCHANGED <<kind, adaptive, zscore>>

\* The warm-up test off by one: the call that fills the window is scored.
RollingWarmUpOffByOne(d) == Len(d.window) + 1 < d.window_size

\* Whether detect takes the branch that only fills the window.
RollingWarmUp(d) == Len(d.window) < d.window_size

RollingDetect(value) ==
    /\ kind = "rolling"
    /\ fitted \/ Len(inputs) < MaxCalls
    /\ op' = "detect"
    /\ inputs' = Record(value)
    /\ IF RollingWarmUp(rolling)
       THEN /\ rolling' = RollingUpdateStats([rolling EXCEPT !.window = Append(@, value)])
            /\ ret' = "False"
       ELSE IF rolling.window = <<>>
            THEN \* window.pop(0) on an empty list
                 /\ rolling' = rolling
                 /\ ret' = "IndexError"
            ELSE LET d1 == RollingUpdateStats(
                               [rolling EXCEPT !.window = PopFirstAppend(@, value)])
                 IN  /\ rolling' = d1
                     /\ ret' = IF RollingVerdict(d1, value) THEN "True" ELSE "False"
    /\ z_score' = 0
    /\ fit_data' = IF op = "fit" THEN fit_data ELSE <<>>
    /\ UNCHANGED <<kind, adaptive, zscore, fitted>>

\* ------------------------------------------------------ ZScoreDetector
ZScoreFit(data) ==
    /\ kind = "zscore"
    /\ op' = "fit"
    /\ fitted' = TRUE
    /\ inputs' = <<>>
    /\ fit_data' = data
    /\ zscore' = [zscore EXCEPT !.window = LastSlice(data, zscore.window_size)]
    /\ ret' = "None"
    /\ z_score' = 0
    /\ UNCHANGED <<kind, adaptive, rolling>>

\* The zero-variance policy flipped: a huge score when std is 0.
ZScoreOfFlagZeroVariance(w, value) ==
    LET mean == StatMean(w)
        std == StatStdev(w)
    IN  IF std > 0 THEN Div((Scale * value - mean) * Scale, std) ELSE 1000 * Scale

\* z_score = (value - mean) / std if std > 0 else 0, over the window.
ZScoreOf(w, value) ==
    LET mean == StatMean(w)
        std == StatStdev(w)
    IN  IF std > 0 THEN Div((Scale * value - mean) * Scale, std) ELSE 0

\* abs(z_score) > self.threshold
ZScoreVerdict(d, z) == Abs(z) > d.threshold

ZScoreWarmUp(d) == Len(d.window) < d.window_size

ZScoreDetect(value) ==
    /\ kind = "zscore"
    /\ fitted \/ Len(inputs) < MaxCalls
    /\ op' = "detect"
    /\ inputs' = Record(value)
    /\ IF ZScoreWarmUp(zscore)
       THEN /\ zscore' = [zscore EXCEPT !.window = Append(@, value)]
            /\ ret' = "False"
            /\ z_score' = 0
       ELSE IF zscore.window = <<>>
            THEN \* window.pop(0) on an empty list
                 /\ zscore' = zscore
                 /\ ret' = "IndexError"
                 /\ z_score' = 0
            ELSE LET w == PopFirstAppend(zscore.window, value)
                 IN  /\ zscore' = [zscore EXCEPT !.window = w]
                     /\ IF Len(w) < 2
                        THEN \* statistics.stdev needs two data points
                             /\ ret' = "StatisticsError"
                             /\ z_score' = 0
                        ELSE /\ z_score' = ZScoreOf(w, value)
                             /\ ret' = IF ZScoreVerdict(zscore, ZScoreOf(w, value))
                                       THEN "True" ELSE "False"
    /\ fit_data' = IF op = "fit" THEN fit_data ELSE <<>>
    /\ UNCHANGED <<kind, adaptive, rolling, fitted>>

\* ---------------------------------------------------------------- Next
\* The detectors called directly, as the tests of anomaly_detector.py do.
Next ==
    \/ \E value \in Values : AdaptiveDetect(value) /\ UNCHANGED pipeline_vars
    \/ \E data \in SeqsUpTo(HistValues, MaxHist) : RollingFit(data) /\ UNCHANGED pipeline_vars
    \/ \E value \in Values : RollingDetect(value) /\ UNCHANGED pipeline_vars
    \/ \E data \in SeqsUpTo(HistValues, MaxHist) : ZScoreFit(data) /\ UNCHANGED pipeline_vars
    \/ \E value \in Values : ZScoreDetect(value) /\ UNCHANGED pipeline_vars

Spec == Init /\ [][Next]_vars

\* An adaptive detector with a window of one and a caller who goes on calling
\* detect while a call is left to make.
InitAdaptive == Init /\ kind = "adaptive" /\ adaptive.window_size = 1

NextAdaptive == \E value \in Values : AdaptiveDetect(value) /\ UNCHANGED pipeline_vars

FairAdaptive == InitAdaptive /\ [][NextAdaptive]_vars /\ WF_vars(NextAdaptive)

\* The constructor arguments of a caller who passes anything: the constructors
\* store window_size, the threshold and adaptation_rate as they come.
AnyWindows == {1, 2}
AnyThresholds == {0 - Scale, 0, 3 * Scale}
AnyRates == {0 - ((10 * Scale) \div 100), (10 * Scale) \div 100, (150 * Scale) \div 100}

InitAnyConfig ==
    \E k \in Kinds :
      \E w \in AnyWindows :
        \E t \in AnyThresholds :
          \E r \in (IF k = "adaptive" THEN AnyRates ELSE {(10 * Scale) \div 100}) :
            /\ kind = k
            /\ adaptive = NewAdaptive(w, t, r)
            /\ rolling = NewRolling(w, t)
            /\ zscore = NewZScore(w, t)
            /\ op = "init"
            /\ ret = "None"
            /\ z_score = 0
            /\ inputs = <<>>
            /\ fitted = FALSE
            /\ fit_data = <<>>
            /\ PipelineIdle

SpecAnyConfig == InitAnyConfig /\ [][Next]_vars

\* --------------------------------------------------- non-finite samples
\* float('inf'), float('-inf') and float('nan') as samples and as the values
\* of sum, sum_sq, mean, std and z_score they produce.
PosInf == 1000000000
NegInf == 0 - PosInf
NaN == 0 - (PosInf + 1)
NonFinite == {NaN, PosInf, NegInf}

IsFinite(x) == x \notin NonFinite

AllFinite(w) == \A i \in 1..Len(w) : IsFinite(w[i])

\* IEEE arithmetic where an operand is not finite; integer arithmetic else.
FNeg(x) == IF x = NaN THEN NaN ELSE IF x = PosInf THEN NegInf
           ELSE IF x = NegInf THEN PosInf ELSE 0 - x

FAbs(x) == IF x = NaN THEN NaN ELSE IF x \in {PosInf, NegInf} THEN PosInf ELSE Abs(x)

FAdd(a, b) ==
    IF a = NaN \/ b = NaN \/ {a, b} = {PosInf, NegInf} THEN NaN
    ELSE IF PosInf \in {a, b} THEN PosInf
    ELSE IF NegInf \in {a, b} THEN NegInf
    ELSE a + b

FSub(a, b) == FAdd(a, FNeg(b))

FSquare(x) == IF x = NaN THEN NaN ELSE IF x \in {PosInf, NegInf} THEN PosInf ELSE x * x

\* x > y on floats: false whenever an operand is nan.
FGreater(x, y) ==
    IF x = NaN \/ y = NaN THEN FALSE
    ELSE IF x = PosInf THEN y # PosInf
    ELSE IF x = NegInf \/ y = PosInf THEN FALSE
    ELSE IF y = NegInf THEN TRUE
    ELSE x > y

\* max(a, b) of Python: b when b > a, else a.
FMax(a, b) == IF FGreater(b, a) THEN b ELSE a

\* statistics.mean over a window holding a non-finite value.
FMean(w) ==
    IF (\E i \in 1..Len(w) : w[i] = NaN)
       \/ ((\E i \in 1..Len(w) : w[i] = PosInf) /\ (\E i \in 1..Len(w) : w[i] = NegInf))
    THEN NaN
    ELSE IF \E i \in 1..Len(w) : w[i] = PosInf THEN PosInf ELSE NegInf

\* AdaptiveRollingAverageDetector.detect when the value or the running sums
\* are not finite: nothing in detect tests for it.
AdaptiveDetectFloat(value) ==
    IF IsFinite(value) /\ IsFinite(adaptive.sum) /\ IsFinite(adaptive.sum_sq)
    THEN AdaptiveDetect(value)
    ELSE
    /\ kind = "adaptive"
    /\ adaptive.count < CallsFor(adaptive.window_size)
    /\ op' = "detect"
    /\ inputs' = Record(value)
    /\ LET d1 == [adaptive EXCEPT !.count = @ + 1,
                                  !.sum = FAdd(@, value),
                                  !.sum_sq = FAdd(@, FSquare(value))]
       IN  IF Len(d1.window) >= d1.window_size /\ d1.window = <<>>
           THEN \* window.pop(0) on an empty list
                /\ adaptive' = d1
                /\ ret' = "IndexError"
                /\ z_score' = 0
           ELSE LET d2 == IF Len(d1.window) >= d1.window_size
                          THEN [d1 EXCEPT !.window = Append(Tail(@), value),
                                          !.sum = FSub(@, Head(d1.window)),
                                          !.sum_sq = FSub(@, FSquare(Head(d1.window)))]
                          ELSE [d1 EXCEPT !.window = Append(@, value)]
                    \* self.sum / n and self.sum_sq / n keep inf and nan
                    var == FSub(d2.sum_sq, FSquare(d2.sum))
                    \* np.sqrt of nan or of -inf is nan, and max(0.1, nan) is 0.1
                    std == IF var = PosInf THEN PosInf ELSE StdFloor
                    dist == FAbs(FSub(value, d2.sum))
                    z == IF std = PosInf
                         THEN (IF IsFinite(dist) THEN 0 ELSE NaN)
                         ELSE dist
                    is_anomaly == FGreater(z, d2.threshold)
                    \* (1 - rate) * threshold + rate * z is z when z is not finite
                IN  /\ adaptive' = [d2 EXCEPT !.mean = d2.sum, !.std = std,
                                              !.threshold = IF is_anomaly THEN @
                                                            ELSE FMax(MinimumThreshold, z)]
                    /\ ret' = IF is_anomaly THEN "True" ELSE "False"
                    /\ z_score' = z
    /\ UNCHANGED <<kind, rolling, zscore, fitted, fit_data>>

\* RollingAverageDetector.detect when the window it scores holds a non-finite
\* value: statistics.mean returns inf or nan; statistics.stdev returns nan or,
\* as in Python 3.11, raises AttributeError after mean was assigned.
RollingDetectFloat(value, raises) ==
    IF (~RollingWarmUp(rolling) /\ rolling.window = <<>>)
       \/ (IsFinite(value)
           /\ AllFinite(IF RollingWarmUp(rolling) THEN rolling.window
                        ELSE Tail(rolling.window)))
    THEN RollingDetect(value) /\ ~raises
    ELSE
    /\ kind = "rolling"
    /\ fitted \/ Len(inputs) < MaxCalls
    /\ op' = "detect"
    /\ inputs' = Record(value)
    /\ LET w == IF RollingWarmUp(rolling) THEN Append(rolling.window, value)
                ELSE PopFirstAppend(rolling.window, value)
       IN  IF Len(w) > 1 /\ raises
           THEN /\ rolling' = [rolling EXCEPT !.window = w, !.mean = FMean(w)]
                /\ ret' = "AttributeError"
           ELSE \* abs(value - mean) > threshold_std * std compares with nan
                /\ ~raises
                /\ rolling' = [rolling EXCEPT !.window = w, !.mean = FMean(w),
                                              !.std = IF Len(w) > 1 THEN NaN ELSE 0]
                /\ ret' = "False"
    /\ z_score' = 0
    /\ fit_data' = IF op = "fit" THEN fit_data ELSE <<>>
    /\ UNCHANGED <<kind, adaptive, zscore, fitted>>

\* ZScoreDetector.detect when the window it scores holds a non-finite value:
\* std is nan, std > 0 is false and the score is 0, or stdev raises.
ZScoreDetectFloat(value, raises) ==
    IF (~ZScoreWarmUp(zscore) /\ zscore.window = <<>>)
       \/ (IsFinite(value)
           /\ AllFinite(IF ZScoreWarmUp(zscore) THEN zscore.window
                        ELSE Tail(zscore.window)))
    THEN ZScoreDetect(value) /\ ~raises
    ELSE
    /\ kind = "zscore"
    /\ fitted \/ Len(inputs) < MaxCalls
    /\ op' = "detect"
    /\ inputs' = Record(value)
    /\ z_score' = 0
    /\ IF ZScoreWarmUp(zscore)
       THEN /\ ~raises
            /\ zscore' = [zscore EXCEPT !.window = Append(@, value)]
            /\ ret' = "False"
       ELSE LET w == PopFirstAppend(zscore.window, value)
            IN  /\ zscore' = [zscore EXCEPT !.window = w]
                /\ IF Len(w) < 2
                   THEN \* statistics.stdev needs two data points
                        /\ ~raises
                        /\ ret' = "StatisticsError"
                   ELSE IF raises
                        THEN ret' = "AttributeError"
                        ELSE ret' = IF ZScoreVerdict(zscore, 0) THEN "True" ELSE "False"
    /\ fit_data' = IF op = "fit" THEN fit_data ELSE <<>>
    /\ UNCHANGED <<kind, adaptive, rolling, fitted>>

\* The samples of a stream that is not filtered: finite and non-finite.
FloatValues == {1, 100, NaN, PosInf, NegInf}

\* Detectors with valid configurations, as main.py defaults them.
InitFloat ==
    \E k \in Kinds :
      \E w \in AnyWindows :
        /\ kind = k
        /\ adaptive = NewAdaptive(w, 3 * Scale, (10 * Scale) \div 100)
        /\ rolling = NewRolling(w, 3 * Scale)
        /\ zscore = NewZScore(w, 3 * Scale)
        /\ op = "init"
        /\ ret = "None"
        /\ z_score = 0
        /\ inputs = <<>>
        /\ fitted = FALSE
        /\ fit_data = <<>>
        /\ PipelineIdle

NextFloat ==
    \/ \E value \in FloatValues : AdaptiveDetectFloat(value) /\ UNCHANGED pipeline_vars
    \/ \E value \in FloatValues, raises \in BOOLEAN :
         RollingDetectFloat(value, raises) /\ UNCHANGED pipeline_vars
    \/ \E value \in FloatValues, raises \in BOOLEAN :
         ZScoreDetectFloat(value, raises) /\ UNCHANGED pipeline_vars

SpecFloat == InitFloat /\ [][NextFloat]_vars

\* ------------------------------------------------------ StreamProcessor
\* num_points is None or self.time < num_points
WithinBudget(p, f) == f.num_points = <<>> \/ p.time < f.num_points[1]

\* num_points is not None and self.time >= num_points
BudgetSpent(p, f) == f.num_points # <<>> /\ p.time >= f.num_points[1]

\* The while condition without the test of is_closed.
LoopConditionBudgetOnly(p, f, v) == WithinBudget(p, f)

\* The while condition; the top-level stream_processor.py tests the budget only.
LoopCondition(p, f, v) == WithinBudget(p, f) /\ (legacy \/ ~v.is_closed)

\* update handed the verdict of the iteration before.
UpdateArgsStaleVerdict(p, f) ==
    [value |-> f.value,
     is_anomaly |-> IF Len(calls.verdicts) > 1
                    THEN calls.verdicts[Len(calls.verdicts) - 1] ELSE FALSE,
     time |-> p.time]

\* What process_stream hands to visualizer.update.
UpdateArgs(p, f) == [value |-> f.value, is_anomaly |-> f.is_anomaly, time |-> p.time]

\* update keeping the last max_points entries of each buffer in every
\* visualizer.
VisualizerUpdateKeepsLast(v, a) ==
    [v EXCEPT !.values = LastSlice(Append(@, a.value), ViewPoints),
              !.anomalies = LastSlice(Append(@, a.is_anomaly), ViewPoints),
              !.times = LastSlice(Append(@, a.time), ViewPoints)]

\* Visualizer.update: the three appends; the top-level visualizer.py then
\* keeps the last max_points entries of each buffer.
VisualizerUpdate(v, a) ==
    LET values == Append(v.values, a.value)
        anomalies == Append(v.anomalies, a.is_anomaly)
        times == Append(v.times, a.time)
    IN  IF legacy /\ Len(values) > ViewPoints
        THEN [v EXCEPT !.values = LastSlice(values, ViewPoints),
                       !.anomalies = LastSlice(anomalies, ViewPoints),
                       !.times = LastSlice(times, ViewPoints)]
        ELSE [v EXCEPT !.values = values, !.anomalies = anomalies, !.times = times]

\* Visualizer.update_plot: the view origin shifts when the newest time leaves
\* the view; nothing happens on a closed plot. The top-level visualizer.py
\* only redraws.
UpdatePlot(v) ==
    IF legacy \/ v.is_closed THEN v
    ELSE LET current_time == v.times[Len(v.times)]
         IN  IF current_time >= v.x_start + ViewPoints
             THEN [v EXCEPT !.x_start = current_time - ViewPoints + ViewShift]
             ELSE v

\* The event loop resumes a task at any moment, whether or not one runs.
MayResumePreemptive == TRUE

\* The event loop resumes a task only when no task runs.
MayResume == tasks.running = "none"

\* process_stream starting every call from tick 0.
ProcessStreamFreshClock(n) ==
    /\ frame.pc \in {"idle", "done", "raised", "interrupted"}
    /\ frame.run \in {"none", "returned", "propagated"}
    /\ MayResume
    /\ calls.runs < MaxRuns
    /\ frame' = [pc |-> "top", num_points |-> n, value |-> 0, is_anomaly |-> FALSE,
                 run |-> "none"]
    /\ calls' = [calls EXCEPT !.runs = @ + 1]
    /\ tasks' = [tasks EXCEPT !.running = "processor",
                              !.render = IF legacy /\ @ = "none" THEN "waiting" ELSE @]
    /\ processor' = NewProcessor
    /\ UNCHANGED <<visualizer, legacy>>
    /\ UNCHANGED detector_vars

\* process_stream(logger, num_points) is called and runs to the loop test;
\* main_async of the top-level main.py starts the render task beside it.
ProcessStream(n) ==
    /\ frame.pc \in {"idle", "done", "raised", "interrupted"}
    /\ frame.run \in {"none", "returned", "propagated"}
    /\ MayResume
    /\ calls.runs < MaxRuns
    /\ frame' = [pc |-> "top", num_points |-> n, value |-> 0, is_anomaly |-> FALSE,
                 run |-> "none"]
    /\ calls' = [calls EXCEPT !.runs = @ + 1]
    /\ tasks' = [tasks EXCEPT !.running = "processor",
                              !.render = IF legacy /\ @ = "none" THEN "waiting" ELSE @]
    /\ UNCHANGED <<processor, visualizer, legacy>>
    /\ UNCHANGED detector_vars

\* The while condition is evaluated; when it is false process_stream logs the
\* closing of the plot, if closed, and returns.
LoopTest ==
    /\ tasks.running = "processor"
    /\ frame.pc = "top"
    /\ LoopCondition(processor, frame, visualizer) => processor.time < MaxTime
    /\ IF LoopCondition(processor, frame, visualizer)
       THEN /\ frame' = [frame EXCEPT !.pc = "next"]
            /\ UNCHANGED <<calls, tasks>>
       ELSE /\ frame' = [frame EXCEPT !.pc = "done"]
            /\ calls' = [calls EXCEPT !.info = IF visualizer.is_closed THEN @ + 1 ELSE @]
            /\ tasks' = [tasks EXCEPT !.running = "none"]
    /\ UNCHANGED <<processor, visualizer, legacy>>
    /\ UNCHANGED detector_vars

\* value = next(stream)
Pull(v) ==
    /\ tasks.running = "processor"
    /\ frame.pc = "next"
    /\ frame' = [frame EXCEPT !.pc = "detect", !.value = v]
    /\ calls' = [calls EXCEPT !.next = Append(@, v)]
    /\ UNCHANGED <<processor, visualizer, tasks, legacy>>
    /\ UNCHANGED detector_vars

\* self.detector.detect(value) is entered.
DetectCall ==
    /\ tasks.running = "processor"
    /\ frame.pc = "detect"
    /\ frame' = [frame EXCEPT !.pc = "in_detect"]
    /\ calls' = [calls EXCEPT !.detect = Append(@, frame.value)]
    /\ UNCHANGED <<processor, visualizer, tasks, legacy>>
    /\ UNCHANGED detector_vars

\* detect runs and returns its verdict, is_anomaly = ..., or raises: the
\* exception leaves process_stream, and asyncio.run of the top-level main.py
\* then cancels the render task.
DetectReturn ==
    /\ tasks.running = "processor"
    /\ frame.pc = "in_detect"
    /\ \/ AdaptiveDetect(frame.value)
       \/ RollingDetect(frame.value)
       \/ ZScoreDetect(frame.value)
    /\ IF ret' \in Verdicts
       THEN /\ frame' = [frame EXCEPT !.pc = "update", !.is_anomaly = (ret' = "True")]
            /\ calls' = [calls EXCEPT !.verdicts = Append(@, ret' = "True")]
            /\ tasks' = tasks
       ELSE /\ frame' = [frame EXCEPT !.pc = "raised"]
            /\ calls' = [calls EXCEPT !.raised = @ + 1]
            /\ tasks' = [tasks EXCEPT !.running = "none", !.render = "none"]
    /\ UNCHANGED <<processor, visualizer, legacy>>

\* self.visualizer.update(value, is_anomaly, self.time) and
\* self.visualizer.update_plot()
Update ==
    /\ tasks.running = "processor"
    /\ frame.pc = "update"
    /\ frame' = [frame EXCEPT !.pc = "tick"]
    /\ calls' = [calls EXCEPT !.update = Append(@, UpdateArgs(processor, frame))]
    /\ visualizer' = UpdatePlot(VisualizerUpdate(visualizer, UpdateArgs(processor, frame)))
    /\ UNCHANGED <<processor, tasks, legacy>>
    /\ UNCHANGED detector_vars

\* self.time += 1, then the break on a spent budget, which returns as the
\* loop test does, or await asyncio.sleep(0.1), which suspends the task.
Tick ==
    /\ tasks.running = "processor"
    /\ frame.pc = "tick"
    /\ processor' = [processor EXCEPT !.time = @ + 1]
    /\ IF BudgetSpent(processor', frame)
       THEN /\ frame' = [frame EXCEPT !.pc = "done"]
            /\ calls' = [calls EXCEPT !.info = IF ~legacy /\ visualizer.is_closed
                                                THEN @ + 1 ELSE @]
       ELSE /\ frame' = [frame EXCEPT !.pc = "sleep"]
            /\ calls' = [calls EXCEPT !.sleep = @ + 1]
    /\ tasks' = [tasks EXCEPT !.running = "none"]
    /\ UNCHANGED <<visualizer, legacy>>
    /\ UNCHANGED detector_vars

\* The pacing sleep is over: the event loop resumes process_stream at the
\* loop test.
Wake ==
    /\ frame.pc = "sleep"
    /\ MayResume
    /\ frame' = [frame EXCEPT !.pc = "top"]
    /\ tasks' = [tasks EXCEPT !.running = "processor"]
    /\ UNCHANGED <<processor, visualizer, calls, legacy>>
    /\ UNCHANGED detector_vars

\* Visualizer.on_close: the plot window is closed.
OnClose ==
    /\ ~legacy
    /\ ~visualizer.is_closed
    /\ visualizer' = [visualizer EXCEPT !.is_closed = TRUE]
    /\ UNCHANGED <<processor, frame, calls, tasks, legacy>>
    /\ UNCHANGED detector_vars

\* The event loop resumes update_plot(visualizer) of the top-level main.py.
RenderResume ==
    /\ legacy
    /\ tasks.render = "waiting"
    /\ MayResume
    /\ tasks' = [tasks EXCEPT !.running = "render", !.render = "running"]
    /\ UNCHANGED <<processor, frame, visualizer, calls, legacy>>
    /\ UNCHANGED detector_vars

\* visualizer.update_plot() reads the three buffers, then
\* await asyncio.sleep(0.1) suspends the render task.
RenderSuspend ==
    /\ tasks.running = "render"
    /\ tasks.render = "running"
    /\ tasks' = [tasks EXCEPT !.running = "none", !.render = "waiting",
                              !.seen = <<Len(visualizer.values),
                                         Len(visualizer.anomalies),
                                         Len(visualizer.times)>>]
    /\ UNCHANGED <<processor, frame, visualizer, calls, legacy>>
    /\ UNCHANGED detector_vars

\* The pipeline of src/src/main.py (legacy FALSE) or of the top-level main.py
\* (legacy TRUE), built on a detector of any kind: threshold 3.0 and
\* adaptation_rate 0.1 as main.py defaults them for the adaptive detector,
\* multiplier 1.0 for the other two.
InitPipeline ==
    /\ kind \in Kinds
    /\ \E w \in PipelineWindows :
         /\ adaptive = NewAdaptive(w, 3 * Scale, (10 * Scale) \div 100)
         /\ rolling = NewRolling(w, Scale)
         /\ zscore = NewZScore(w, Scale)
    /\ op = "init"
    /\ ret = "None"
    /\ z_score = 0
    /\ inputs = <<>>
    /\ fitted = FALSE
    /\ fit_data = <<>>
    /\ processor = NewProcessor
    /\ frame = NoFrame
    /\ visualizer = NewVisualizer
    /\ calls = NoCalls
    /\ tasks = NoTasks
    /\ legacy \in BOOLEAN

\* One step of process_stream between two suspensions.
Iterate ==
    \/ LoopTest
    \/ \E v \in StreamValues : Pull(v)
    \/ DetectCall
    \/ DetectReturn
    \/ Update
    \/ Tick

NextPipeline ==
    \/ \E n \in Budgets : ProcessStream(n)
    \/ LoopTest
    \/ \E v \in StreamValues : Pull(v)
    \/ DetectCall
    \/ DetectReturn
    \/ Update
    \/ Tick
    \/ Wake
    \/ OnClose
    \/ RenderResume
    \/ RenderSuspend

Pipeline == InitPipeline /\ [][NextPipeline]_vars

\* ------------------------------------------------------ StreamProcessor.run
\* Visualizer.close: plt.close(self.fig). Whether the backend delivers the
\* close_event to on_close depends on the backend.
VisualizerClose(v, fires) ==
    IF legacy THEN v ELSE [v EXCEPT !.is_closed = @ \/ fires]

\* run(logger, num_points) enters its try block: asyncio.run(run_async(...))
\* starts process_stream, which runs to the loop test.
Run(n) ==
    /\ frame.pc \in {"idle", "done", "raised", "interrupted"}
    /\ frame.run \in {"none", "returned", "propagated"}
    /\ MayResume
    /\ calls.runs < MaxRuns
    /\ frame' = [pc |-> "top", num_points |-> n, value |-> 0, is_anomaly |-> FALSE,
                 run |-> "try"]
    /\ calls' = [calls EXCEPT !.runs = @ + 1, !.run = @ + 1]
    /\ tasks' = [tasks EXCEPT !.running = "processor"]
    /\ UNCHANGED <<processor, visualizer, legacy>>
    /\ UNCHANGED detector_vars

\* The user presses Ctrl-C while process_stream is under way: the event loop
\* gives the tasks up and KeyboardInterrupt leaves asyncio.run.
Interrupt ==
    /\ frame.pc \in {"top", "next", "detect", "in_detect", "update", "tick", "sleep"}
    /\ frame' = [frame EXCEPT !.pc = "interrupted"]
    /\ tasks' = [tasks EXCEPT !.running = "none", !.render = "none"]
    /\ UNCHANGED <<processor, visualizer, calls, legacy>>
    /\ UNCHANGED detector_vars

\* except KeyboardInterrupt: logger.info("StreamProcessor: Stream processing
\* interrupted by user."); the top-level stream_processor.py prints it.
RunExcept ==
    /\ frame.run = "try"
    /\ frame.pc = "interrupted"
    /\ frame' = [frame EXCEPT !.run = "handled"]
    /\ calls' = [calls EXCEPT !.interrupted = IF legacy THEN @ ELSE @ + 1]
    /\ UNCHANGED <<processor, visualizer, tasks, legacy>>
    /\ UNCHANGED detector_vars

\* The finally clause without the call of close.
RunFinallySkipsClose ==
    /\ \/ frame.run = "try" /\ frame.pc \in {"done", "raised"}
       \/ frame.run = "handled"
    /\ frame' = [frame EXCEPT !.run = IF frame.pc = "raised" THEN "propagated"
                                                               ELSE "returned"]
    /\ UNCHANGED <<processor, visualizer, calls, tasks, legacy>>
    /\ UNCHANGED detector_vars

\* finally: self.visualizer.close(), after which run returns, or the
\* exception of detect goes on to the caller of run. The top-level
\* stream_processor.py has no finally clause.
RunFinally ==
    /\ \/ frame.run = "try" /\ frame.pc \in {"done", "raised"}
       \/ frame.run = "handled"
    /\ frame' = [frame EXCEPT !.run = IF frame.pc = "raised" THEN "propagated"
                                                               ELSE "returned"]
    /\ calls' = [calls EXCEPT !.close = IF legacy THEN @ ELSE @ + 1]
    /\ \E fires \in BOOLEAN : visualizer' = VisualizerClose(visualizer, fires)
    /\ UNCHANGED <<processor, tasks, legacy>>
    /\ UNCHANGED detector_vars

\* run is studied over a ZScoreDetector, the detector whose detect returns
\* either verdict and raises either exception.
InitRun == InitPipeline /\ kind = "zscore"

\* A processor driven through run only, by a user who may interrupt it and
\* close the plot; run starts no render task.
NextRun ==
    \/ \E n \in Budgets : Run(n)
    \/ Iterate
    \/ Wake
    \/ OnClose
    \/ Interrupt
    \/ RunExcept
    \/ RunFinally

RunPipeline == InitRun /\ [][NextRun]_vars

\* A running task runs on to its next suspension, and the event loop resumes
\* every task whose sleep is over.
FairPipeline ==
    /\ Pipeline
    /\ WF_vars(Iterate)
    /\ WF_vars(RenderSuspend)
    /\ SF_vars(Wake)


\* ------------------------------------------------------------- claims
Last(s) == s[Len(s)]

AllEqual(w) == \A i \in 1..Len(w) : w[i] = w[1]

\* The window of the detector the pipeline drives.
ActiveWindow ==
    IF kind = "adaptive" THEN adaptive.window
    ELSE IF kind = "rolling" THEN rolling.window ELSE zscore.window

ActiveWindowSize ==
    IF kind = "adaptive" THEN adaptive.window_size
    ELSE IF kind = "rolling" THEN rolling.window_size ELSE zscore.window_size

\* C1: the adaptive threshold is at least the minimum threshold 3.0 in every
\* reachable state, the state right after construction included.
C1_ThresholdAtLeastMinimum ==
    kind = "adaptive" => adaptive.threshold >= MinimumThreshold

\* C2: an adaptive detect call that returns true leaves the threshold as it
\* was, and its sample is in the window all the same.
C2_AnomalyKeepsThreshold ==
    [][(kind = "adaptive" /\ op' = "detect" /\ ret' = "True")
         => /\ adaptive'.threshold = adaptive.threshold
            /\ Last(adaptive'.window) = Last(inputs')]_vars

C2_Witness ==
    /\ kind = "adaptive"
    /\ op = "detect"
    /\ ret = "True"
    /\ Last(adaptive.window) = 100

\* C3 as stated: every adaptive detect call that returns false ends with a
\* threshold different from the one it started with.
C3_Original ==
    [][(kind = "adaptive" /\ op' = "detect" /\ ret' = "False")
         => adaptive'.threshold # adaptive.threshold]_vars

\* C3 amended: an adaptive detect call that returns false ends with a
\* different threshold unless the threshold is at the floor 3.0 already,
\* the score equals the threshold, or adaptation_rate is 0.
C3_Amended ==
    [][(/\ kind = "adaptive" /\ op' = "detect" /\ ret' = "False"
        /\ adaptive.adaptation_rate > 0
        /\ adaptive.threshold # MinimumThreshold
        /\ z_score' # adaptive.threshold)
         => adaptive'.threshold # adaptive.threshold]_vars

C3_Witness ==
    /\ kind = "adaptive"
    /\ adaptive.count = 1
    /\ ret = "False"
    /\ adaptive.threshold > MinimumThreshold
    /\ adaptive.threshold < (32 * Scale) \div 10

\* C4: on a never-seeded RollingAverageDetector or ZScoreDetector, every
\* detect call made while fewer than window_size samples have been seen
\* returns false.
C4_WarmUpReturnsFalse ==
    (/\ kind \in {"rolling", "zscore"}
     /\ ~fitted
     /\ op = "detect"
     /\ Len(inputs) <= ActiveWindowSize)
      => ret = "False"

C4_Witness ==
    /\ kind = "zscore"
    /\ ~fitted
    /\ zscore.window_size = 3
    /\ zscore.threshold = Scale
    /\ inputs = <<1, 1, 100>>
    /\ ret = "False"

\* The comparison of RollingAverageDetector.detect, recomputed from a window
\* whose last element is the value: |value - mean| > threshold_std * std,
\* std being 0 for a window of one.
WindowVerdict(w, threshold_std) ==
    Abs(Scale * Last(w) - StatMean(w)) * Scale
      > threshold_std * (IF Len(w) > 1 THEN StatStdev(w) ELSE 0)

\* C5 as stated: every RollingAverageDetector.detect call after which the
\* window holds window_size samples, the call that fills the window included,
\* returns the comparison over the window that contains the value.
C5_Original ==
    (/\ kind = "rolling"
     /\ op = "detect"
     /\ ret \in Verdicts
     /\ Len(rolling.window) = rolling.window_size)
      => (ret = "True" <=> WindowVerdict(rolling.window, rolling.threshold_std))

\* C5 amended: every RollingAverageDetector.detect call that finds the window
\* at capacity already and returns has evicted the oldest value, appended the
\* new one, and returns the comparison over that window.
C5_Amended ==
    [][(/\ kind = "rolling" /\ op' = "detect" /\ ret' \in Verdicts
        /\ Len(rolling.window) >= rolling.window_size)
         => /\ rolling'.window = Append(Tail(rolling.window), Last(rolling'.window))
            /\ ret' = "True"
                 <=> WindowVerdict(rolling'.window, rolling.threshold_std)]_vars

C5_Witness ==
    /\ kind = "rolling"
    /\ op = "detect"
    /\ ret = "True"
    /\ Len(rolling.window) = rolling.window_size

\* C6: a ZScoreDetector.detect call that reaches the comparison with a window
\* of identical values scores 0 and returns false.
C6_ZeroVarianceNeverFlags ==
    [][(/\ kind = "zscore" /\ op' = "detect" /\ ret' \in Verdicts
        /\ ~ZScoreWarmUp(zscore)
        /\ AllEqual(zscore'.window))
         => (ret' = "False" /\ z_score' = 0)]_vars

C6_Witness ==
    /\ kind = "zscore"
    /\ ~fitted
    /\ op = "detect"
    /\ zscore.window_size >= 2
    /\ Len(inputs) > zscore.window_size
    /\ AllEqual(zscore.window)
    /\ ret = "False"

\* C7 as stated, on its instance: window_size 5, multiplier 3.0 to 3.5, five
\* samples 10 and then 100: the sixth call returns true.
C7_Original ==
    (/\ kind = "rolling"
     /\ ~fitted
     /\ rolling.window_size = 5
     /\ rolling.threshold_std >= 3 * Scale
     /\ inputs = <<10, 10, 10, 10, 10, 100>>)
      => ret = "True"

\* C7 amended: when the window is full of equal values and the next value
\* differs, RollingAverageDetector.detect scores the value against the window
\* that contains it, and returns true exactly when
\* threshold_std < (n - 1) / sqrt(n), n the length of the window.
C7_Amended ==
    [][(/\ kind = "rolling" /\ op' = "detect" /\ ret' \in Verdicts
        /\ ~RollingWarmUp(rolling)
        /\ AllEqual(rolling.window)
        /\ Last(rolling'.window) # Head(rolling.window))
         => LET n == Len(rolling'.window)
                k == rolling.threshold_std
            IN  ret' = "True" <=> k * k * n < (n - 1) * (n - 1) * Scale * Scale]_vars

C7_Witness ==
    /\ kind = "rolling"
    /\ ~fitted
    /\ rolling.window_size = 5
    /\ rolling.threshold_std = (35 * Scale) \div 10
    /\ inputs = <<10, 10, 10, 10, 10, 100>>
    /\ rolling.window = <<10, 10, 10, 10, 100>>
    /\ ret = "False"

\* The adaptive detector of the scenario: window_size 3, adaptation_rate 0.1.
C8_Scenario ==
    /\ kind = "adaptive"
    /\ adaptive.window_size = 3
    /\ adaptive.adaptation_rate = (10 * Scale) \div 100

\* C8 as stated: fed 1,1,1,1,100 the call for 100 returns true.
C8_Original ==
    (C8_Scenario /\ inputs = <<1, 1, 1, 1, 100>>) => ret = "True"

\* C8 amended: fed 1,1,1,1,100 the call for 100 scores 1.41 against the
\* window [1,1,100] and returns false; the threshold is 3.0 before the call
\* and 3.0 after it.
C8_Amended ==
    /\ (C8_Scenario /\ inputs = <<1, 1, 1, 1>>)
         => adaptive.threshold = MinimumThreshold
    /\ (C8_Scenario /\ inputs = <<1, 1, 1, 1, 100>>)
         => /\ ret = "False"
            /\ adaptive.window = <<1, 1, 100>>
            /\ z_score = (141 * Scale) \div 100
            /\ adaptive.threshold = MinimumThreshold

C8_Witness ==
    /\ C8_Scenario
    /\ inputs = <<1, 1, 1, 1, 100>>
    /\ ret = "False"
    /\ adaptive.threshold = MinimumThreshold

\* C9: for window_size > 0 no window is ever longer than window_size, and
\* once a never-seeded detector has had window_size detect calls its window
\* holds window_size values.
C9_WindowBounded ==
    /\ adaptive.window_size > 0 => Len(adaptive.window) <= adaptive.window_size
    /\ rolling.window_size > 0 => Len(rolling.window) <= rolling.window_size
    /\ zscore.window_size > 0 => Len(zscore.window) <= zscore.window_size
    /\ (~fitted /\ ActiveWindowSize > 0 /\ Len(inputs) >= ActiveWindowSize)
         => Len(ActiveWindow) = ActiveWindowSize

C9_Witness ==
    /\ kind = "zscore"
    /\ ~fitted
    /\ zscore.window_size = 2
    /\ Len(inputs) = 4
    /\ Len(zscore.window) = 2

\* C10: after n detect calls on a never-seeded detector the window is the
\* last min(n, window_size) arguments in arrival order.
C10_WindowIsFifo ==
    ~fitted =>
      LET n == Len(inputs)
          m == Min(n, ActiveWindowSize)
      IN  ActiveWindow = SubSeq(inputs, n - m + 1, n)

C10_Witness ==
    /\ kind = "rolling"
    /\ ~fitted
    /\ rolling.window_size = 3
    /\ inputs = <<1, 10, 100, 1>>
    /\ rolling.window = <<10, 100, 1>>

\* The statistics _update_stats would store if sum and sum_sq were computed
\* from the window contents.
Recomputed(d) ==
    AdaptiveUpdateStats([d EXCEPT !.sum = Sum(d.window), !.sum_sq = SumSq(d.window)])

\* C11: in every state of an adaptive detector sum is the sum of the values
\* in window and sum_sq the sum of their squares, and after a detect call
\* mean and std are the ones recomputed from the window contents.
C11_SumsMatchWindow ==
    kind = "adaptive" =>
      /\ adaptive.sum = Sum(adaptive.window)
      /\ adaptive.sum_sq = SumSq(adaptive.window)
      /\ op = "detect" =>
           /\ adaptive.mean = Recomputed(adaptive).mean
           /\ adaptive.std = Recomputed(adaptive).std

\* The same for detectors built with window_size >= 1.
C11_PositiveWindow ==
    adaptive.window_size >= 1 => C11_SumsMatchWindow

\* The last min(len(data), window_size) elements of data, in order.
LastElements(data, window_size) ==
    LET n == Len(data)
        m == Min(n, window_size)
    IN  SubSeq(data, n - m + 1, n)

\* C12: right after fit(data) on a RollingAverageDetector or ZScoreDetector
\* the window is the last min(len(data), window_size) elements of data in
\* order, and on RollingAverageDetector mean is the mean of those elements.
C12_FitKeepsLastElements ==
    (kind \in {"rolling", "zscore"} /\ op = "fit")
      => /\ ActiveWindow = LastElements(fit_data, ActiveWindowSize)
         /\ Len(ActiveWindow) = Min(Len(fit_data), ActiveWindowSize)
         /\ kind = "rolling"
              => /\ ret = "None"
                 /\ rolling.mean = StatMean(LastElements(fit_data, rolling.window_size))

\* The same for window_size >= 1 and a non-empty data.
C12_PositiveWindow ==
    (ActiveWindowSize >= 1 /\ fit_data # <<>>) => C12_FitKeepsLastElements

\* fit(history) with at least window_size elements was followed immediately
\* by detect(history[-1]); fit_data is the history.
C13_RoundTrip ==
    /\ kind \in {"rolling", "zscore"}
    /\ op = "detect"
    /\ fit_data # <<>>
    /\ Len(fit_data) >= ActiveWindowSize
    /\ Last(ActiveWindow) = Last(fit_data)

\* C13 as stated: fit(history) followed by detect(history[-1]) evaluates the
\* verdict with the mean and standard deviation of history[-window_size:].
C13_Original ==
    C13_RoundTrip =>
      LET h == LastSlice(fit_data, ActiveWindowSize)
      IN  IF kind = "rolling"
          THEN /\ rolling.mean = StatMean(h)
               /\ rolling.std = (IF Len(h) > 1 THEN StatStdev(h) ELSE 0)
          ELSE ret \in Verdicts => z_score = ZScoreOf(h, Last(fit_data))

\* C13 amended: fit(history) followed by detect(history[-1]) first evicts the
\* oldest element of the seeded window and appends history[-1]; the verdict is
\* evaluated with the mean and standard deviation of that window,
\* history[-window_size:][1:] + [history[-1]], and a ZScoreDetector whose
\* window then holds one element raises StatisticsError.
C13_Amended ==
    C13_RoundTrip =>
      LET h == LastSlice(fit_data, ActiveWindowSize)
          w == Append(Tail(h), Last(fit_data))
      IN  /\ ActiveWindow = w
          /\ IF kind = "rolling"
             THEN /\ rolling.mean = StatMean(w)
                  /\ rolling.std = (IF Len(w) > 1 THEN StatStdev(w) ELSE 0)
                  /\ ret = "True" <=> WindowVerdict(w, rolling.threshold_std)
                  /\ ret \in Verdicts
             ELSE IF Len(w) < 2
                  THEN ret = "StatisticsError"
                  ELSE /\ z_score = ZScoreOf(w, Last(fit_data))
                       /\ ret = "True" <=> Abs(z_score) > zscore.threshold
                       /\ ret \in Verdicts

C13_Witness ==
    /\ kind = "rolling"
    /\ op = "detect"
    /\ rolling.window_size = 2
    /\ fit_data = <<1, 1, 100>>
    /\ rolling.window = <<100, 100>>
    /\ rolling.mean = 100 * Scale
    /\ rolling.std = 0
    /\ ret = "False"

\* The comparison a detect call makes over the window w that already holds
\* the value, for the detector of the run.
Comparison(w) ==
    IF kind = "rolling" THEN WindowVerdict(w, rolling.threshold_std)
    ELSE IF Len(w) < 2 THEN FALSE
    ELSE Abs(ZScoreOf(w, Last(w))) > zscore.threshold

\* C14: for window_size >= 1, the detect call that follows a fit with at
\* least window_size samples is out of warm-up: it returns the threshold
\* comparison over its window.
C14_SeededIsOutOfWarmUp ==
    [][(/\ kind \in {"rolling", "zscore"}
        /\ op = "fit" /\ ret = "None"
        /\ ActiveWindowSize >= 1
        /\ Len(fit_data) >= ActiveWindowSize
        /\ op' = "detect")
         => /\ ret' \in Verdicts
            /\ ret' = "True" <=> Comparison(ActiveWindow')]_vars

\* The same for RollingAverageDetector with window_size >= 1 and for
\* ZScoreDetector with window_size >= 2.
C14_ScoredWindows ==
    [][(/\ kind \in {"rolling", "zscore"}
        /\ op = "fit" /\ ret = "None"
        /\ Len(fit_data) >= ActiveWindowSize
        /\ ActiveWindowSize >= (IF kind = "rolling" THEN 1 ELSE 2)
        /\ op' = "detect")
         => /\ ret' \in Verdicts
            /\ ret' = "True" <=> Comparison(ActiveWindow')]_vars

\* C15: the k-th visualizer.update call of a StreamProcessor carries
\* timestamp k - 1, over all its process_stream calls, and self.time never
\* decreases.
C15_TimestampsCountUp ==
    /\ [](\A k \in 1..Len(calls.update) : calls.update[k].time = k - 1)
    /\ [][processor'.time >= processor.time]_vars

C15_Witness ==
    /\ calls.runs = 2
    /\ frame.pc = "done"
    /\ frame.num_points = <<3>>
    /\ Len(calls.update) = 3
    /\ calls.update[3].time = 2
    /\ calls.sleep = 1

\* process_stream is between iterations: not called, at the loop test, in
\* the pacing sleep, or returned.
BetweenIterations == frame.pc \in {"idle", "top", "next", "sleep", "done"}

\* How many of the four steps of the current iteration are done.
StepsDone ==
    [next |-> IF frame.pc \in {"detect", "in_detect", "update", "tick"} THEN 1 ELSE 0,
     detect |-> IF frame.pc \in {"in_detect", "update", "tick"} THEN 1 ELSE 0,
     verdict |-> IF frame.pc \in {"update", "tick"} THEN 1 ELSE 0,
     update |-> IF frame.pc = "tick" THEN 1 ELSE 0]

\* C16: an iteration pulls one value, calls detect on it, hands that value
\* and the verdict detect returned to visualizer.update, then increments
\* the tick, in this order; between iterations the numbers of pulls, detect
\* calls and update calls are equal.
C16_OnePullDetectUpdatePerTick ==
    /\ Len(calls.next) = processor.time + StepsDone.next
    /\ Len(calls.detect) = processor.time + StepsDone.detect
    /\ Len(calls.verdicts) = processor.time + StepsDone.verdict
    /\ Len(calls.update) = processor.time + StepsDone.update
    /\ \A k \in 1..Len(calls.detect) : calls.detect[k] = calls.next[k]
    /\ \A k \in 1..Len(calls.update) :
         /\ calls.update[k].value = calls.next[k]
         /\ calls.update[k].is_anomaly = calls.verdicts[k]
    /\ BetweenIterations =>
         /\ Len(calls.detect) = Len(calls.update)
         /\ Len(calls.update) = Len(calls.next)

C16_Witness ==
    /\ kind = "rolling"
    /\ frame.pc = "done"
    /\ frame.num_points = <<4>>
    /\ calls.next = <<1, 1, 1, 100>>
    /\ calls.detect = <<1, 1, 1, 100>>
    /\ calls.verdicts = <<FALSE, FALSE, FALSE, TRUE>>
    /\ calls.update[4] = [value |-> 100, is_anomaly |-> TRUE, time |-> 3]
    /\ processor.time = 4

\* No detect call of the run has raised.
NoDetectRaised == ret \in Verdicts \cup {"None"}

\* The same while no detect call has raised.
C16_WhileDetectReturns == NoDetectRaised => C16_OnePullDetectUpdatePerTick

\* The first process_stream call on the processor, given the budget n >= 1,
\* is over and the plot was never closed.
C17_FirstRunOver(n) ==
    /\ calls.runs = 1
    /\ frame.num_points = <<n>>
    /\ frame.pc \in {"done", "raised"}
    /\ ~visualizer.is_closed

\* C17: with the plot never closed, process_stream(num_points = n) on a fresh
\* StreamProcessor ends by returning after exactly n iterations: time is n,
\* n values were pulled, detect and update were called n times each, and
\* the pacing sleep n - 1 times.
C17_BudgetRunsExactly ==
    \A n \in 1..MaxPoints :
      C17_FirstRunOver(n)
        => /\ frame.pc = "done"
           /\ processor.time = n
           /\ Len(calls.next) = n
           /\ Len(calls.detect) = n
           /\ Len(calls.update) = n
           /\ calls.sleep = n - 1

\* The same while no detect call has raised.
C17_WhileDetectReturns == NoDetectRaised => C17_BudgetRunsExactly

\* With the budget 0 the call returns at once, having slept 0 times.
C17_ZeroBudget ==
    (calls.runs = 1 /\ frame.num_points = <<0>> /\ frame.pc # "top")
      => /\ frame.pc = "done"
         /\ processor.time = 0
         /\ calls.next = <<>>
         /\ calls.sleep = 0

\* A step of process_stream of src/src taken while the plot is closed.
C18_StepWhileClosed == ~legacy /\ visualizer.is_closed /\ frame' # frame

\* C18: a closed plot is observed by the loop test only. The loop test that
\* finds is_closed true returns without another pull, detect or update; a
\* step inside an iteration is the step it would be with the plot open: the
\* pull, the detect call, the update and the tick increment follow one
\* another, and process_stream returns from within an iteration only after
\* the increment.
C18_ClosedObservedAtLoopTest ==
    [][C18_StepWhileClosed =>
         CASE frame.pc = "top" ->
                /\ frame'.pc = "done"
                /\ calls'.next = calls.next
                /\ calls'.detect = calls.detect
                /\ calls'.update = calls.update
                /\ processor'.time = processor.time
           [] frame.pc = "next" ->
                frame'.pc = "detect" /\ Len(calls'.next) = Len(calls.next) + 1
           [] frame.pc = "detect" ->
                frame'.pc = "in_detect" /\ Len(calls'.detect) = Len(calls.detect) + 1
           [] frame.pc = "in_detect" ->
                frame'.pc = IF ret' \in Verdicts THEN "update" ELSE "raised"
           [] frame.pc = "update" ->
                frame'.pc = "tick" /\ Len(calls'.update) = Len(calls.update) + 1
           [] frame.pc = "tick" ->
                /\ processor'.time = processor.time + 1
                /\ frame'.pc = IF BudgetSpent(processor', frame) THEN "done" ELSE "sleep"
           [] frame.pc = "sleep" -> frame'.pc = "top"
           [] OTHER -> frame'.pc = "top"]_vars

\* An unbounded run that made two complete iterations and returned at the
\* third loop test, on a closed plot.
C18_Witness ==
    /\ ~legacy
    /\ visualizer.is_closed
    /\ frame.pc = "done"
    /\ frame.num_points = <<>>
    /\ processor.time = 2
    /\ Len(calls.update) = 2
    /\ calls.sleep = 2
    /\ calls.info = 1

\* process_stream runs with a finite budget, or on a closed plot.
C19_MustStop ==
    /\ frame.pc \notin {"idle", "done", "raised"}
    /\ frame.num_points # <<>> \/ visualizer.is_closed

\* C19: under fair scheduling process_stream eventually returns whenever
\* it has a finite budget or the plot is closed, and it stops only on a
\* spent budget or a closed plot.
C19_ReturnsOnBudgetOrClose ==
    /\ C19_MustStop ~> frame.pc = "done"
    /\ [][(frame.pc \notin {"done", "raised"} /\ frame'.pc \in {"done", "raised"})
            => /\ frame'.pc = "done"
               /\ BudgetSpent(processor', frame) \/ visualizer.is_closed]_vars

\* The same with the raise of a detect call counted as a way to stop.
C19_ReturnsOrRaises ==
    /\ C19_MustStop ~> frame.pc \in {"done", "raised"}
    /\ [][(frame.pc \notin {"done", "raised"} /\ frame'.pc = "done")
            => BudgetSpent(processor', frame) \/ visualizer.is_closed]_vars

\* The detect calls entered and neither returned nor raised yet.
Outstanding == Len(calls.detect) - Len(calls.verdicts) - calls.raised

\* C20: at most one detect call is outstanding, and while one is, the task
\* of process_stream holds the event loop: no other task runs before detect
\* is over. The calls are made in sample order, the detector changes only
\* inside a detect call, and process_stream is suspended nowhere but in the
\* pacing sleep, with or without the render task of the top-level main.py.
C20_DetectCallsAreSequential ==
    /\ [](/\ Outstanding \in {0, 1}
          /\ Outstanding = 1 <=> frame.pc = "in_detect"
          /\ frame.pc = "in_detect" => tasks.running = "processor"
          /\ tasks.running # "processor" => frame.pc \in {"idle", "sleep", "done", "raised"}
          /\ Len(calls.detect) <= Len(calls.next)
          /\ \A k \in 1..Len(calls.detect) : calls.detect[k] = calls.next[k])
    /\ [][detector_vars' # detector_vars
            => /\ frame.pc = "in_detect"
               /\ tasks.running = "processor"
               /\ tasks'.seen = tasks.seen]_vars

\* The render task has run between the first detect call and the second,
\* which is outstanding.
C20_Witness ==
    /\ legacy
    /\ frame.pc = "in_detect"
    /\ Len(calls.detect) = 2
    /\ tasks.render = "waiting"
    /\ tasks.seen = <<1, 1, 1>>


\* run is inside its try block or its except clause.
InRun == frame.run \in {"try", "handled"}

\* The step with which run is left, by return or by an exception.
RunLeaves == InRun /\ frame'.run \in {"returned", "propagated"}

\* C21: StreamProcessor.run of src/src/stream_processor.py calls
\* visualizer.close() exactly once per call, with the step that leaves run
\* and with no other, whether process_stream returned, was interrupted or
\* raised; a KeyboardInterrupt during processing is logged once as
\* "interrupted by user" and run then returns: only an exception of detect
\* goes on to the caller.
C21_RunClosesExactlyOnce ==
    /\ [](~legacy => calls.close = calls.run - (IF InRun THEN 1 ELSE 0))
    /\ [][~legacy =>
            /\ RunLeaves => calls'.close = calls.close + 1
            /\ calls'.close # calls.close => RunLeaves
            /\ (frame.run = "try" /\ frame.pc = "interrupted" /\ frame'.run # "try")
                 => frame'.run = "handled" /\ calls'.interrupted = calls.interrupted + 1
            /\ calls'.interrupted # calls.interrupted => frame.pc = "interrupted"
            /\ (frame.run = "handled" /\ frame'.run # "handled")
                 => frame'.run = "returned"
            /\ (frame'.run = "propagated" /\ frame.run # "propagated")
                 => frame.pc = "raised"]_vars

\* Two calls of run are over, one interrupted and one that finished after
\* three updates: two close calls and one interruption logged.
C21_Witness ==
    /\ ~legacy
    /\ calls.run = 2
    /\ frame.run = "returned"
    /\ frame.pc = "done"
    /\ calls.interrupted = 1
    /\ calls.close = 2
    /\ Len(calls.update) = 3


\* C22: the three buffers of a Visualizer of src/src/visualizer.py hold, in
\* call order, the arguments of all update calls made so far: k entries each
\* after k calls, also when k exceeds max_points; the three buffers have the
\* same length in every state.
C22_UpdateBuffersEverySample ==
    /\ Len(visualizer.values) = Len(visualizer.anomalies)
    /\ Len(visualizer.values) = Len(visualizer.times)
    /\ ~legacy =>
         /\ Len(visualizer.values) = Len(calls.update)
         /\ \A i \in 1..Len(calls.update) :
              /\ visualizer.values[i] = calls.update[i].value
              /\ visualizer.anomalies[i] = calls.update[i].is_anomaly
              /\ visualizer.times[i] = calls.update[i].time

\* More update calls than max_points, the last of them with a true verdict.
C22_Witness ==
    /\ ~legacy
    /\ Len(calls.update) > ViewPoints
    /\ Len(visualizer.values) = Len(calls.update)
    /\ Last(visualizer.anomalies)
    /\ Last(visualizer.values) = 100


\* C23: no detector with a non-positive window_size exists in any state, so
\* none is ever handed to fit or detect: the constructor has refused it.
C23_NonPositiveWindowRejected == ActiveWindowSize >= 1

\* The threshold of the detector in use: threshold_std of a
\* RollingAverageDetector.
ActiveThreshold ==
    IF kind = "adaptive" THEN adaptive.threshold
    ELSE IF kind = "rolling" THEN rolling.threshold_std ELSE zscore.threshold

\* C24: every constructed detector has a threshold above 0, and every
\* adaptive detector an adaptation_rate in [0, 1]: the constructor has
\* refused every other value.
C24_ConfigurationValidated ==
    /\ ActiveThreshold > 0
    /\ kind = "adaptive" =>
         adaptive.adaptation_rate >= 0 /\ adaptive.adaptation_rate <= Scale


\* C25: a detect call with nan, inf or -inf ends in InvalidSampleError, and no
\* non-finite value is ever in a window, in the running sums or in the mean.
C25_NonFiniteRejected ==
    /\ (op = "detect" /\ inputs # <<>> /\ ~IsFinite(Last(inputs)))
         => ret = "InvalidSampleError"
    /\ AllFinite(ActiveWindow)
    /\ kind = "adaptive" =>
         IsFinite(adaptive.sum) /\ IsFinite(adaptive.sum_sq) /\ IsFinite(adaptive.mean)
    /\ kind = "rolling" => IsFinite(rolling.mean) /\ IsFinite(rolling.std)


\* C26: on a detector with window_size >= 1 fed finite values every detect
\* call returns a boolean verdict; none raises.
C26_DetectNeverRaises ==
    (ActiveWindowSize >= 1 /\ op = "detect") => ret \in Verdicts

\* The same for every detector but a ZScoreDetector with window_size 1.
C26_ExceptZScoreOfOne ==
    (ActiveWindowSize >= 1 /\ op = "detect" /\ ~(kind = "zscore" /\ ActiveWindowSize = 1))
      => ret \in Verdicts


\* C27: an adaptive detect call that returns false scores the value it just
\* pushed as z = |value - mean| / std, with the mean and std it has just
\* recomputed, and ends with
\* threshold = max(3.0, (1 - adaptation_rate) * old threshold + adaptation_rate * z).
C27_ThresholdSmoothing ==
    [][(kind = "adaptive" /\ op' = "detect" /\ ret' = "False")
         => /\ z_score' = Div(Abs(Scale * Last(adaptive'.window) - adaptive'.mean) * Scale,
                              adaptive'.std)
            /\ adaptive'.threshold =
                 Max(MinimumThreshold,
                     Div((Scale - adaptive.adaptation_rate) * adaptive.threshold
                           + adaptive.adaptation_rate * z_score', Scale))]_vars

\* A third call that is not anomalous, scored above 1.0 and left the
\* threshold at the floor.
C27_Witness ==
    /\ kind = "adaptive"
    /\ op = "detect"
    /\ ret = "False"
    /\ adaptive.adaptation_rate = (5 * Scale) \div 100
    /\ adaptive.count = 3
    /\ z_score > Scale
    /\ adaptive.threshold = MinimumThreshold


\* The initial thresholds at or above the minimum.
AtOrAboveMinimum == {t \in InitialThresholds : t >= MinimumThreshold}

C28_NoRiseAtOrAboveMinimum ==
    [][(kind = "adaptive" /\ adaptive.threshold >= MinimumThreshold)
         => adaptive'.threshold <= adaptive.threshold]_vars

\* The least number of samples a window holds when one of them scores above
\* 3.0: the score of a sample among n is at most the square root of n - 1.
FirstFlaggable == 11

\* The verdict detect would return for a value on a detector with
\* window_size >= 1.
WouldFlag(d, value) ==
    LET d2 == AdaptiveUpdateStats(AdaptivePush(AdaptiveAccumulate(d, value), value))
    IN  AdaptiveZScore(d2, value) > d2.threshold

\* C29 as stated, for the first call: for a fresh adaptive detector with a
\* threshold at or above 3.0 there is a first sample on which detect returns
\* true.
C29_Original ==
    (/\ kind = "adaptive"
     /\ adaptive.count = 0
     /\ adaptive.window_size >= 1
     /\ adaptive.threshold >= MinimumThreshold)
      => \E value \in SamplesFor(adaptive.window_size) : WouldFlag(adaptive, value)

\* C29 amended: detect has no warm-up branch and scores every call against
\* the window that already holds the value, so the first call on a fresh
\* detector with window_size >= 1 and a threshold at or above 3.0 finds
\* mean = value, scores 0 and returns false whatever the value; later calls
\* can return true, also before the window is full.
C29_Amended ==
    [][(/\ kind = "adaptive"
        /\ adaptive.window_size >= 1
        /\ adaptive.threshold >= MinimumThreshold
        /\ adaptive.count = 0
        /\ op' = "detect")
         => /\ ret' = "False"
            /\ z_score' = 0
            /\ adaptive'.mean = Scale * Last(adaptive'.window)]_vars

\* The eleventh call returns true.
C29_Witness ==
    /\ kind = "adaptive"
    /\ op = "detect"
    /\ ret = "True"
    /\ adaptive.count = FirstFlaggable
    /\ Len(adaptive.window) = FirstFlaggable

\* C30: after every adaptive detect call std is at least the floor 0.1, and
\* a window of equal values has std 0.1 and scored its last value 0.
C30_StdAtLeastFloor ==
    (kind = "adaptive" /\ op = "detect")
      => /\ adaptive.std >= StdFloor
         /\ AllEqual(adaptive.window) => (adaptive.std = StdFloor /\ z_score = 0)

\* The same for window_size >= 1.
C30_PositiveWindow == adaptive.window_size >= 1 => C30_StdAtLeastFloor


\* The mean and std of a window as RollingAverageDetector derives them; 0 and
\* 0 for an empty window.
FreshStats(w) ==
    [mean |-> IF w = <<>> THEN 0 ELSE StatMean(w),
     std |-> IF Len(w) > 1 THEN StatStdev(w) ELSE 0]

\* C31: after every fit or detect call on a RollingAverageDetector with
\* window_size >= 1 the stored mean and std are those of the window as it
\* then is.
C31_StatsNeverStale ==
    (kind = "rolling" /\ rolling.window_size >= 1 /\ op \in {"fit", "detect"})
      => /\ rolling.mean = FreshStats(rolling.window).mean
         /\ rolling.std = FreshStats(rolling.window).std

\* The same for the calls that leave a value in the window.
C31_NonEmptyWindow == rolling.window # <<>> => C31_StatsNeverStale


\* What |z_score| > threshold comes to on a window of two or more values
\* whose last value is the one just pushed.
FreshScore(w) ==
    LET mean == StatMean(w)
        std == StatStdev(w)
    IN  IF std > 0 THEN Div((Scale * Last(w) - mean) * Scale, std) ELSE 0

\* A ZScoreDetector.detect call made on a full window, and what it returns
\* when it returns the comparison on the window it leaves.
C32_FullWindowCall(least) ==
    /\ kind = "zscore"
    /\ zscore.window_size >= least
    /\ Len(zscore.window) >= zscore.window_size
    /\ op' = "detect"

C32_ReturnsComparison ==
    /\ Len(zscore'.window) >= 2
    /\ z_score' = FreshScore(zscore'.window)
    /\ ret' = IF Abs(FreshScore(zscore'.window)) > zscore.threshold THEN "True" ELSE "False"

\* C32: once the window of a ZScoreDetector with window_size >= 1 is full,
\* detect returns |z_score| > threshold, z_score being (value - mean) / std
\* over the window that holds the value just pushed, and 0 when std is 0.
C32_VerdictIsScoreAboveThreshold ==
    [][C32_FullWindowCall(1) => C32_ReturnsComparison]_vars

\* The same for window_size >= 2.
C32_WindowOfTwoOrMore ==
    [][C32_FullWindowCall(2) => C32_ReturnsComparison]_vars


\* C33: seeding a RollingAverageDetector of window_size >= 1 with an empty
\* history completes without raising and leaves an empty window with mean 0.
C33_EmptyFitCompletes ==
    (kind = "rolling" /\ rolling.window_size >= 1 /\ op = "fit" /\ fit_data = <<>>)
      => /\ ret = "None"
         /\ rolling.window = <<>>
         /\ rolling.mean = 0

\* ZScoreDetector.fit computes no statistics: an empty history leaves an
\* empty window and raises nothing.
C33_ZScoreEmptyFit ==
    (kind = "zscore" /\ op = "fit" /\ fit_data = <<>>)
      => (ret = "None" /\ zscore.window = <<>>)


\* ------------------------------------------------- both detectors, paired
\* A RollingAverageDetector and a ZScoreDetector built with the same
\* window_size and the same multiplier and given the same calls; ret is the
\* pair of what the two calls return, z_score the score of the ZScoreDetector.
PairWindows == {2, 3}

\* 0, the defaults' 3.0, 1.0, and 0.65 and 0.70, which are scores of a value
\* in a window of three and of two as the arithmetic represents them.
PairMultipliers == {0, 65, 70, Scale, 3 * Scale}

InitPair ==
    \E w \in PairWindows :
      \E k \in PairMultipliers :
        /\ kind = "pair"
        /\ adaptive = NewAdaptive(w, k, 0)
        /\ rolling = NewRolling(w, k)
        /\ zscore = NewZScore(w, k)
        /\ op = "init"
        /\ ret = <<"None", "None">>
        /\ z_score = 0
        /\ inputs = <<>>
        /\ fitted = FALSE
        /\ fit_data = <<>>
        /\ PipelineIdle

\* RollingAverageDetector.fit(data) and ZScoreDetector.fit(data)
PairFit(data) ==
    /\ kind = "pair"
    /\ op' = "fit"
    /\ fitted' = TRUE
    /\ inputs' = <<>>
    /\ fit_data' = data
    /\ LET d1 == [rolling EXCEPT !.window = LastSlice(data, rolling.window_size)]
       IN  /\ rolling' = IF d1.window = <<>> THEN d1 ELSE RollingUpdateStats(d1)
           /\ zscore' = [zscore EXCEPT !.window = LastSlice(data, zscore.window_size)]
           /\ ret' = <<IF d1.window = <<>> THEN "StatisticsError" ELSE "None", "None">>
    /\ z_score' = 0
    /\ UNCHANGED <<kind, adaptive>>

\* What RollingAverageDetector.detect(value) leaves and returns.
RollingDetectOutcome(d, value) ==
    IF RollingWarmUp(d)
    THEN [d |-> RollingUpdateStats([d EXCEPT !.window = Append(@, value)]),
          ret |-> "False"]
    ELSE IF d.window = <<>>
         THEN [d |-> d, ret |-> "IndexError"]
         ELSE LET d1 == RollingUpdateStats([d EXCEPT !.window = PopFirstAppend(@, value)])
              IN  [d |-> d1,
                   ret |-> IF RollingVerdict(d1, value) THEN "True" ELSE "False"]

\* What ZScoreDetector.detect(value) leaves, scores and returns.
ZScoreDetectOutcome(d, value) ==
    IF ZScoreWarmUp(d)
    THEN [d |-> [d EXCEPT !.window = Append(@, value)], z |-> 0, ret |-> "False"]
    ELSE IF d.window = <<>>
         THEN [d |-> d, z |-> 0, ret |-> "IndexError"]
         ELSE LET w == PopFirstAppend(d.window, value)
                  d1 == [d EXCEPT !.window = w]
              IN  IF Len(w) < 2
                  THEN [d |-> d1, z |-> 0, ret |-> "StatisticsError"]
                  ELSE [d |-> d1, z |-> ZScoreOf(w, value),
                        ret |-> IF ZScoreVerdict(d, ZScoreOf(w, value))
                                THEN "True" ELSE "False"]

\* RollingAverageDetector.detect(value) and ZScoreDetector.detect(value)
PairDetect(value) ==
    /\ kind = "pair"
    /\ fitted \/ Len(inputs) < MaxCalls
    /\ op' = "detect"
    /\ inputs' = Record(value)
    /\ rolling' = RollingDetectOutcome(rolling, value).d
    /\ zscore' = ZScoreDetectOutcome(zscore, value).d
    /\ z_score' = ZScoreDetectOutcome(zscore, value).z
    /\ ret' = <<RollingDetectOutcome(rolling, value).ret,
                ZScoreDetectOutcome(zscore, value).ret>>
    /\ fit_data' = IF op = "fit" THEN fit_data ELSE <<>>
    /\ UNCHANGED <<kind, adaptive, fitted>>

NextPair ==
    \/ \E data \in SeqsUpTo(HistValues, MaxHist) : PairFit(data) /\ UNCHANGED pipeline_vars
    \/ \E value \in Values : PairDetect(value) /\ UNCHANGED pipeline_vars

SpecPair == InitPair /\ [][NextPair]_vars

\* C34: a RollingAverageDetector and a ZScoreDetector with the same
\* window_size >= 2 and the same multiplier k >= 0, given the same fit and
\* detect calls, return the same on every call.
C34_SameVerdictOnEveryCall == ret[1] = ret[2]

\* C34, amended: the two detectors keep the same window and return the same
\* on every call but two kinds: fit with an empty history, which raises in
\* RollingAverageDetector only, and a detect call on a full window whose score
\* is the multiplier to the precision of the arithmetic, where
\* |value - mean| > k * std and |z_score| > k can fall on different sides.
C34_SameVerdictButAtTheMultiplier ==
    /\ rolling.window = zscore.window
    /\ ret[1] # ret[2]
         => \/ op = "fit" /\ fit_data = <<>> /\ ret = <<"StatisticsError", "None">>
            \/ /\ op = "detect"
               /\ Len(zscore.window) >= zscore.window_size
               /\ Abs(z_score) = zscore.threshold
               /\ {ret[1], ret[2]} = {"True", "False"}

\* Both detectors flag the value just pushed into a full window.
C34_Witness ==
    /\ op = "detect"
    /\ Len(rolling.window) = rolling.window_size
    /\ ret = <<"True", "True">>
    /\ rolling.threshold_std > 0


\* C35 in exact arithmetic: with adaptation_rate in [0, 1], a detect call of
\* the adaptive detector that starts with the threshold at or above 3.0 ends
\* with a threshold that is no higher and still at or above 3.0.
C35_ExactArithmetic ==
    [][(/\ kind = "adaptive"
        /\ op' = "detect"
        /\ adaptive.adaptation_rate >= 0
        /\ adaptive.adaptation_rate <= Scale
        /\ adaptive.threshold >= MinimumThreshold)
         => /\ adaptive'.threshold <= adaptive.threshold
            /\ adaptive'.threshold >= MinimumThreshold]_vars


\* ------------------------------------------- the floats' finite precision
\* Python's floats are binary with a significand of 53 bits, and each
\* operation returns the float nearest to its exact result. The running sums
\* of the adaptive detector lose the low bits of large squares, and the
\* weighted sum of the smoothing is rounded three times. The detector
\* below is AdaptiveRollingAverageDetector on floats of the same kind with a
\* significand of MantissaBits bits: a number x is held as the integer
\* x * 2^FractionBits, the window holds the samples as they were passed.
MantissaBits == 6

FractionBits == 8

\* The float 1.0
One == 2^FractionBits

\* The spacing of the floats at magnitude a: 1 below 2^MantissaBits, doubled
\* with every further bit.
RECURSIVE Grain(_, _)
Grain(a, g) == IF a < g * 2^MantissaBits THEN g ELSE Grain(a, 2 * g)

\* The integer nearest to num / den, den > 0, a half going to the even one.
Nearest(num, den) ==
    LET a == Abs(num)
        q == a \div den
        r == a % den
        n == IF 2 * r > den \/ (2 * r = den /\ q % 2 = 1) THEN q + 1 ELSE q
    IN  IF num < 0 THEN 0 - n ELSE n

\* The float nearest to num / den.
Round(num, den) ==
    LET g == Grain(Abs(num) \div den, 1)
    IN  g * Nearest(num, den * g)

RAdd(a, b) == Round(a + b, 1)

RSub(a, b) == Round(a - b, 1)

RMul(a, b) == Round(a * b, One)

RDiv(a, b) == Round(a * One, b)

\* np.sqrt of a float >= 0
RSqrt(a) ==
    LET s == Sqrt(a * One)
    IN  Round(IF a * One - s * s > s THEN s + 1 ELSE s, 1)

\* float(value) of a sample
ToFloat(value) == value * One

\* The literals 0.1 and 3.0 as floats.
RoundedStdFloor == Round(One, 10)

RoundedMinimum == 3 * One

\* self.count += 1; self.sum += value; self.sum_sq += value ** 2
RoundedAccumulate(d, value) ==
    [d EXCEPT !.count = d.count + 1,
              !.sum = RAdd(d.sum, ToFloat(value)),
              !.sum_sq = RAdd(d.sum_sq, RMul(ToFloat(value), ToFloat(value)))]

\* The eviction of the oldest value and the append, window_size >= 1.
RoundedPush(d, value) ==
    IF Len(d.window) >= d.window_size
    THEN LET old_value == ToFloat(Head(d.window))
         IN  [d EXCEPT !.window = Append(Tail(d.window), value),
                       !.sum = RSub(d.sum, old_value),
                       !.sum_sq = RSub(d.sum_sq, RMul(old_value, old_value))]
    ELSE [d EXCEPT !.window = Append(d.window, value)]

\* _update_stats on a non-empty window: np.sqrt of a negative number is nan,
\* and max(0.1, nan) is 0.1.
RoundedUpdateStats(d) ==
    LET n == Len(d.window)
        m == Round(d.sum, n)
        v == RSub(Round(d.sum_sq, n), RMul(m, m))
    IN  [d EXCEPT !.mean = m,
                  !.std = IF v < 0 THEN RoundedStdFloor
                          ELSE Max(RoundedStdFloor, RSqrt(v))]

\* z_score = abs(value - self.mean) / self.std if self.std > 0 else 0
RoundedZScore(d, value) ==
    IF d.std > 0 THEN RDiv(Abs(RSub(ToFloat(value), d.mean)), d.std) ELSE 0

\* The smoothing applied whatever the verdict, on rounded floats.
RoundedAdaptThresholdAlways(d, z, is_anomaly) ==
    Max(RoundedMinimum,
        RAdd(RMul(RSub(One, d.adaptation_rate), d.threshold),
             RMul(d.adaptation_rate, z)))

\* The threshold after the call.
RoundedAdaptThreshold(d, z, is_anomaly) ==
    IF is_anomaly THEN d.threshold
    ELSE Max(RoundedMinimum,
             RAdd(RMul(RSub(One, d.adaptation_rate), d.threshold),
                  RMul(d.adaptation_rate, z)))

\* One window of ten, explored with the samples 0 and 10 over ten calls;
\* the shorter windows with samples whose squares take more bits than the
\* significand has.
RoundedLongWindow == 10

RoundedSamplesFor(window_size) ==
    IF window_size >= RoundedLongWindow THEN {0, 10} ELSE {1, 40, 41}

RoundedCallsFor(window_size) ==
    IF window_size >= RoundedLongWindow THEN RoundedLongWindow ELSE MaxCalls

RoundedDetect(value) ==
    /\ kind = "adaptive"
    /\ value \in RoundedSamplesFor(adaptive.window_size)
    /\ adaptive.count < RoundedCallsFor(adaptive.window_size)
    /\ op' = "detect"
    /\ inputs' = Record(value)
    /\ LET d2 == RoundedUpdateStats(RoundedPush(RoundedAccumulate(adaptive, value), value))
           z == RoundedZScore(d2, value)
           is_anomaly == z > d2.threshold
       IN  /\ adaptive' = [d2 EXCEPT !.threshold = RoundedAdaptThreshold(d2, z, is_anomaly)]
           /\ ret' = IF is_anomaly THEN "True" ELSE "False"
           /\ z_score' = z
    /\ UNCHANGED <<kind, rolling, zscore, fitted, fit_data>>

RoundedValues == {0, 1, 10, 40, 41}

RoundedWindows == {1, 2, 3, RoundedLongWindow}

\* Initial thresholds 0, 3.0 and 3.2 and adaptation rates 0, 0.1, 0.5 and 1.
InitRounded ==
    \E w \in RoundedWindows :
      \E t \in {0, 3 * One, Round(32 * One, 10)} :
        \E r \in {0, Round(One, 10), One \div 2, One} :
          /\ kind = "adaptive"
          /\ adaptive = NewAdaptive(w, t, r)
          /\ rolling = NewRolling(w, t)
          /\ zscore = NewZScore(w, t)
          /\ op = "init"
          /\ ret = "None"
          /\ z_score = 0
          /\ inputs = <<>>
          /\ fitted = FALSE
          /\ fit_data = <<>>
          /\ PipelineIdle

NextRounded == \E value \in RoundedValues : RoundedDetect(value) /\ UNCHANGED pipeline_vars

SpecRounded == InitRounded /\ [][NextRounded]_vars

\* A detect call made with adaptation_rate in [0, 1] and the threshold at or
\* above 3.0.
C35_CallAtOrAboveMinimum ==
    /\ kind = "adaptive"
    /\ op' = "detect"
    /\ adaptive.adaptation_rate >= 0
    /\ adaptive.adaptation_rate <= One
    /\ adaptive.threshold >= RoundedMinimum

\* C35: with adaptation_rate in [0, 1], a detect call of the adaptive
\* detector that starts with the threshold at or above 3.0 ends with
\* threshold' <= threshold.
C35_ThresholdNeverIncreases ==
    [][C35_CallAtOrAboveMinimum
         => adaptive'.threshold <= adaptive.threshold]_vars

\* C35 amended: such a call ends with a threshold at or above 3.0 that is
\* at most the next float above the one it started with, and with the same
\* threshold when it flags the value.
C35_NeverByMoreThanRounding ==
    [][C35_CallAtOrAboveMinimum
         => /\ adaptive'.threshold <= adaptive.threshold + Grain(adaptive.threshold, 1)
            /\ adaptive'.threshold >= RoundedMinimum
            /\ ret' = "True" => adaptive'.threshold = adaptive.threshold]_vars

\* Nine samples 0 and then a 10 in a window of ten: the score is 3.0, equal
\* to the threshold, the call does not flag, and the weighted sum of 3.0 and
\* 3.0 at adaptation_rate 0.1 has rounded to the float above 3.0.
C35_Witness ==
    /\ kind = "adaptive"
    /\ op = "detect"
    /\ ret = "False"
    /\ adaptive.window_size = RoundedLongWindow
    /\ adaptive.count = RoundedLongWindow
    /\ adaptive.adaptation_rate = Round(One, 10)
    /\ z_score = RoundedMinimum
    /\ adaptive.threshold = RoundedMinimum + Grain(RoundedMinimum, 1)

\* C36: on every detect call of the adaptive detector the score z of the
\* value just pushed satisfies z * z <= len(window) - 1; the first call
\* returns false; and with window_size <= 10, initial_threshold >= 0 and
\* adaptation_rate in [0, 1] no call returns true.
C36_ScoreBoundedByWindow ==
    (kind = "adaptive" /\ op = "detect")
      => /\ z_score * z_score <= (Len(adaptive.window) - 1) * One * One
         /\ adaptive.count = 1 => ret = "False"
         /\ adaptive.window_size <= 10 => ret = "False"


\* The same in exact arithmetic, for window_size >= 1: the sums of the
\* samples 1, 10 and 100 and of their squares are held exactly.
C36_ExactSums ==
    (kind = "adaptive" /\ adaptive.window_size >= 1 /\ op = "detect")
      => /\ z_score * z_score <= (Len(adaptive.window) - 1) * Scale * Scale
         /\ adaptive.count = 1 => ret = "False"
         /\ adaptive.window_size <= 10 => ret = "False"


\* ------------------------------- the top-level pipeline, update in steps
\* Visualizer.update of the top-level visualizer.py statement by statement:
\* the three appends, then, past max_points, the three buffers cut to their
\* last max_points entries one after the other. process_stream calls it and
\* update_plot without an await in between.
LegacyAppendValues ==
    /\ legacy
    /\ tasks.running = "processor"
    /\ frame.pc = "update"
    /\ frame' = [frame EXCEPT !.pc = "append_anomalies"]
    /\ calls' = [calls EXCEPT !.update = Append(@, UpdateArgs(processor, frame))]
    /\ visualizer' = [visualizer EXCEPT !.values = Append(@, frame.value)]
    /\ UNCHANGED <<processor, tasks, legacy>>
    /\ UNCHANGED detector_vars

LegacyAppendAnomalies ==
    /\ legacy
    /\ tasks.running = "processor"
    /\ frame.pc = "append_anomalies"
    /\ frame' = [frame EXCEPT !.pc = "append_times"]
    /\ visualizer' = [visualizer EXCEPT !.anomalies = Append(@, frame.is_anomaly)]
    /\ UNCHANGED <<processor, calls, tasks, legacy>>
    /\ UNCHANGED detector_vars

\* self.times.append(time) and the test of len(self.values) > self.max_points;
\* when it fails update returns and update_plot redraws.
LegacyAppendTimes ==
    /\ legacy
    /\ tasks.running = "processor"
    /\ frame.pc = "append_times"
    /\ frame' = [frame EXCEPT !.pc = IF Len(visualizer.values) > ViewPoints
                                     THEN "cut_values" ELSE "tick"]
    /\ visualizer' = [visualizer EXCEPT !.times = Append(@, processor.time)]
    /\ UNCHANGED <<processor, calls, tasks, legacy>>
    /\ UNCHANGED detector_vars

LegacyCutValues ==
    /\ legacy
    /\ tasks.running = "processor"
    /\ frame.pc = "cut_values"
    /\ frame' = [frame EXCEPT !.pc = "cut_anomalies"]
    /\ visualizer' = [visualizer EXCEPT !.values = LastSlice(@, ViewPoints)]
    /\ UNCHANGED <<processor, calls, tasks, legacy>>
    /\ UNCHANGED detector_vars

LegacyCutAnomalies ==
    /\ legacy
    /\ tasks.running = "processor"
    /\ frame.pc = "cut_anomalies"
    /\ frame' = [frame EXCEPT !.pc = "cut_times"]
    /\ visualizer' = [visualizer EXCEPT !.anomalies = LastSlice(@, ViewPoints)]
    /\ UNCHANGED <<processor, calls, tasks, legacy>>
    /\ UNCHANGED detector_vars

\* The last statement of update; update_plot then redraws.
LegacyCutTimes ==
    /\ legacy
    /\ tasks.running = "processor"
    /\ frame.pc = "cut_times"
    /\ frame' = [frame EXCEPT !.pc = "tick"]
    /\ visualizer' = [visualizer EXCEPT !.times = LastSlice(@, ViewPoints)]
    /\ UNCHANGED <<processor, calls, tasks, legacy>>
    /\ UNCHANGED detector_vars

\* main_async of the top-level main.py on a ZScoreDetector.
InitLegacy == InitPipeline /\ legacy /\ kind = "zscore"

NextLegacy ==
    \/ \E n \in Budgets : ProcessStream(n)
    \/ LoopTest
    \/ \E v \in StreamValues : Pull(v)
    \/ DetectCall
    \/ DetectReturn
    \/ LegacyAppendValues
    \/ LegacyAppendAnomalies
    \/ LegacyAppendTimes
    \/ LegacyCutValues
    \/ LegacyCutAnomalies
    \/ LegacyCutTimes
    \/ Tick
    \/ Wake
    \/ RenderResume
    \/ RenderSuspend

LegacyPipeline == InitLegacy /\ [][NextLegacy]_vars

\* The three buffers of the Visualizer hold the same number of entries.
CompleteSamples ==
    /\ Len(visualizer.values) = Len(visualizer.anomalies)
    /\ Len(visualizer.anomalies) = Len(visualizer.times)

\* C37: in the top-level entry point the render task runs update_plot on
\* complete samples only: while it runs, and whenever a task is suspended in
\* asyncio.sleep, the three buffers have the same length, and so have the
\* buffers it has read.
C37_RenderSeesCompleteSamples ==
    /\ tasks.running = "render" => CompleteSamples
    /\ tasks.running = "none" => CompleteSamples
    /\ tasks.seen[1] = tasks.seen[2]
    /\ tasks.seen[2] = tasks.seen[3]

\* The render task has read the buffers after they were cut to max_points,
\* while process_stream sleeps.
C37_Witness ==
    /\ legacy
    /\ frame.pc = "sleep"
    /\ tasks.render = "waiting"
    /\ tasks.seen = <<ViewPoints, ViewPoints, ViewPoints>>
    /\ Len(calls.update) > ViewPoints

\* The steps of update add up to update as a whole: when it has returned the
\* buffers end with what it was handed and hold at most max_points entries.
C37_StepsAreUpdate ==
    frame.pc = "tick"
      => /\ Last(visualizer.values) = Last(calls.update).value
         /\ Last(visualizer.anomalies) = Last(calls.update).is_anomaly
         /\ Last(visualizer.times) = Last(calls.update).time
         /\ Len(visualizer.values) = Min(Len(calls.update), ViewPoints)
         /\ CompleteSamples


\* process_stream was called with the budget n.
HasBudget(n) == frame.num_points = <<n>>

\* The budget is tested against the lifetime counter: a call that finds
\* time >= n leaves the loop at its first test, with no pull, no detect and
\* no update, and time, never reset, is taken past no budget.
C38_LifetimeCounter ==
    /\ [][\A n \in 0..MaxPoints :
            (HasBudget(n) /\ frame.pc = "top" /\ processor.time >= n /\ frame' # frame)
              => /\ frame'.pc = "done"
                 /\ processor' = processor
                 /\ calls'.next = calls.next
                 /\ calls'.detect = calls.detect
                 /\ calls'.update = calls.update]_vars
    /\ [][processor'.time >= processor.time]_vars
    /\ [][\A n \in 0..MaxPoints :
            (HasBudget(n) /\ processor'.time # processor.time)
              => /\ processor'.time = processor.time + 1
                 /\ processor'.time <= n
                 /\ Len(calls.update) = processor'.time]_vars

\* C38: the budget is measured against the lifetime counter, and a call
\* made with time = t < n processes exactly n - t further samples: when the
\* call is over the counter is at n or was at n or more from the start.
C38_ExactlyTheRemainingSamples ==
    /\ C38_LifetimeCounter
    /\ [](\A n \in 0..MaxPoints :
            (HasBudget(n) /\ frame.pc \in {"done", "raised"}) => processor.time >= n)

\* C38, amended: the same for a call that returns with the plot open; a call
\* stopped by the closing of the plot or by an exception of detect has
\* processed fewer than n - t samples.
C38_RemainingSamplesWhileOpen ==
    /\ C38_LifetimeCounter
    /\ [](\A n \in 0..MaxPoints :
            (HasBudget(n) /\ frame.pc = "done" /\ ~visualizer.is_closed)
              => processor.time >= n)
    /\ [][\A n \in 0..MaxPoints :
            (HasBudget(n) /\ frame.pc = "in_detect" /\ frame'.pc = "raised")
              => processor'.time < n]_vars

\* A second call, with a budget the first call has already taken the counter
\* past, has returned without a pull.
C38_Witness ==
    /\ calls.runs = 2
    /\ frame.pc = "done"
    /\ ~visualizer.is_closed
    /\ \E n \in 1..MaxPoints : HasBudget(n) /\ processor.time > n
    /\ Len(calls.next) = processor.time
    /\ Len(calls.update) = processor.time

=============================================================================
